---- MODULE Spec2Model ----
(***************************************************************************)
(* Model of the editing core of point_trace_editor.py: the ordered list of *)
(* points, the drag state, the tracked mouse position and the status line  *)
(* of PointTraceEditor, with one action per Tk event handler.              *)
(*                                                                         *)
(* Python list indices are kept 0-based as in the source; the TLA+         *)
(* sequence `points` stores Python's points[i] at position i + 1.          *)
(* The distance from a position to a segment is a float in the source and  *)
(* a float in the model (section "Python floats"): the comparison with the *)
(* line tolerance depends on its rounding.  The distance from a position   *)
(* to a point is the square root of an integer n, and n ** 0.5 <= r holds  *)
(* exactly when n <= r * r: that comparison is made on n.                  *)
(***************************************************************************)
EXTENDS Integers, Sequences, FiniteSets, TLC

\* Longest trace the model builds (clicks that would grow the trace past it
\* are not taken).
MaxLen == 4

\* Pointer positions (event.x, event.y) the events are drawn from.
Positions == { <<0, 0>>, <<10, 0>>, <<5, 1>>, <<20, 2>> }

\* Pointer positions of the specification of the tolerance boundary: (11, 30)
\* is at distance 5 from the segment from (0, 20) to (24, 30), whose length is
\* 26, and (12, 25) lies on that segment.
EdgePositions == { <<0, 20>>, <<24, 30>>, <<11, 30>>, <<12, 25>> }

\* Longest trace of the export specification.
MaxExportLen == 3

\* Points of the traces of the export specification.
ExportPoints == { << 1, 2 >>, << 3, 4 >>, << -5, 10 >> }

\* Coordinates of the distance specification: (0, 15) lies on the segment
\* from (0, 0) to (0, 22), and 15 * 22 / 484 is not a float.
GridCoords == { 0, 15, 22 }

\* Key symbols delivered to on_key_press.
Keysyms == { "d", "D", "x" }

\* Python's None (drag_point_index, and the "not found" result of the hit tests).
None == -1

\* self.point_radius
point_radius == 3

\* line_click_tolerance in find_line_at_position
line_click_tolerance == 5

VARIABLES
    points,            \* self.points
    dragging,          \* self.dragging
    drag_point_index,  \* self.drag_point_index (0-based, or None)
    mouse_x,           \* self.mouse_x
    mouse_y,           \* self.mouse_y
    status,            \* self.status_var: the message and its formatted values
    event,             \* the handler Tk dispatched last, with its argument
    raised,            \* TRUE iff that handler ended in an IndexError
    drag_seq,          \* history: the click -> drag-move* -> release sequence in progress
    drag_target,       \* history: the index now held by the point the drag started on
                       \*   (None when no drag is in progress or that point is gone)
    clear_calls,       \* history: number of clear_points calls in a row, counted up to 2
    copied,            \* << text >> when that handler called pyperclip.copy(text),
                       \*   << >> when it made no such call
    warning,           \* << title >> when that handler called
                       \*   messagebox.showwarning(title, ...), << >> when it did not
    button_down,       \* history: mouse button 1 is held (tracked by the
                       \*   specification that drives the editor with one pointer)
    dist_args,         \* arguments of a point_to_line_distance call, << >> if none
    dist_result        \* << the float that call returned >>, << >> before it returns

vars == << points, dragging, drag_point_index, mouse_x, mouse_y,
           status, event, raised, drag_seq, drag_target, clear_calls,
           copied, warning, button_down, dist_args, dist_result >>

\* The calls a handler made to pyperclip and messagebox.
export_vars == << copied, warning >>
dist_vars == << dist_args, dist_result >>

\* The fields of the editor.  self.drag_start_x and self.drag_start_y are
\* assigned by on_canvas_click and read nowhere in the program; they are not
\* part of the state.
model_vars == << points, dragging, drag_point_index, mouse_x, mouse_y, status >>

----------------------------------------------------------------------------
(* Python floats *)

(***************************************************************************)
(* A Python float is an IEEE 754 double.  The model holds the finite       *)
(* doubles the distance computation meets as records                       *)
(*     [ neg |-> sign, m |-> mantissa, e |-> exponent ]                    *)
(* of value (-1)^neg * m * 2^e.  The mantissa has mant_dig bits when the   *)
(* value is not zero and is a natural number written in base 1024, least   *)
(* significant limb first, without leading zero limbs (TLC's integers have *)
(* 32 bits); zero is [ neg |-> FALSE, m |-> << >>, e |-> 0 ].  Every       *)
(* operation / * + - computes the exact result and rounds it to the        *)
(* nearest double, ties to even, as the hardware does; x ** 2 and x ** 0.5 *)
(* are the C library's pow, which is built from those operations and is    *)
(* not correctly rounded (section "x ** y on floats").  The integer        *)
(* operands are such that line_length_squared < 2^21.                      *)
(***************************************************************************)

\* sys.float_info.mant_dig
mant_dig == 53

\* A natural number without its leading zero limbs.
RECURSIVE BigTrim(_)
BigTrim(a) ==
    IF a = << >> THEN << >>
    ELSE IF a[Len(a)] = 0 THEN BigTrim(SubSeq(a, 1, Len(a) - 1))
    ELSE a

\* The limbs of the natural number n.
RECURSIVE BigFromInt(_)
BigFromInt(n) == IF n = 0 THEN << >> ELSE << n % 1024 >> \o BigFromInt(n \div 1024)

\* a + b + c for a carry c
RECURSIVE BigAddCarry(_, _, _)
BigAddCarry(a, b, c) ==
    IF a = << >> /\ b = << >>
    THEN BigFromInt(c)
    ELSE LET x == IF a = << >> THEN 0 ELSE a[1]
             y == IF b = << >> THEN 0 ELSE b[1]
             s == x + y + c
         IN  << s % 1024 >> \o BigAddCarry(IF a = << >> THEN a ELSE Tail(a),
                                           IF b = << >> THEN b ELSE Tail(b),
                                           s \div 1024)

BigAdd(a, b) == BigAddCarry(a, b, 0)

\* The limbs of a - b - c for a borrow c, a - b - c >= 0, leading zeros kept.
RECURSIVE BigSubBorrow(_, _, _)
BigSubBorrow(a, b, c) ==
    IF a = << >> THEN << >>
    ELSE LET y == IF b = << >> THEN 0 ELSE b[1]
             d == a[1] - y - c
         IN  << d % 1024 >> \o BigSubBorrow(Tail(a),
                                            IF b = << >> THEN b ELSE Tail(b),
                                            IF d < 0 THEN 1 ELSE 0)

\* a - b for a >= b
BigSub(a, b) == BigTrim(BigSubBorrow(a, b, 0))

\* -1, 0 or 1 as the limbs 1 .. i of a are below, equal to or above those of b
RECURSIVE BigCmpFrom(_, _, _)
BigCmpFrom(a, b, i) ==
    IF i = 0 THEN 0
    ELSE IF a[i] < b[i] THEN -1
    ELSE IF a[i] > b[i] THEN 1
    ELSE BigCmpFrom(a, b, i - 1)

\* -1, 0 or 1 as a < b, a = b or a > b
BigCmp(a, b) ==
    IF Len(a) < Len(b) THEN -1
    ELSE IF Len(a) > Len(b) THEN 1
    ELSE BigCmpFrom(a, b, Len(a))

\* a * k + c for integers 0 <= k, c < 2^20
RECURSIVE BigMulSmall(_, _, _)
BigMulSmall(a, k, c) ==
    IF a = << >> THEN BigFromInt(c)
    ELSE LET s == a[1] * k + c
         IN  << s % 1024 >> \o BigMulSmall(Tail(a), k, s \div 1024)

\* a * 1024^n
BigShiftLimbs(a, n) == IF a = << >> THEN a ELSE [ i \in 1 .. n |-> 0 ] \o a

\* The limbs of a * b, leading zeros kept.
RECURSIVE BigMulFrom(_, _)
BigMulFrom(a, b) ==
    IF b = << >> THEN << >>
    ELSE BigAdd(BigMulSmall(a, b[1], 0), << 0 >> \o BigMulFrom(a, Tail(b)))

\* a * b
BigMul(a, b) == IF a = << >> THEN << >> ELSE BigTrim(BigMulFrom(a, b))

\* a * 2^k
BigShl(a, k) == BigShiftLimbs(BigTrim(BigMulSmall(a, 2 ^ (k % 10), 0)), k \div 10)

\* hi \div 2^b for 0 <= b < 10
BigShrBits(hi, b) ==
    BigTrim([ i \in 1 .. Len(hi) |->
                (hi[i] \div 2 ^ b)
                + (IF i < Len(hi) THEN (hi[i + 1] % 2 ^ b) * 2 ^ (10 - b) ELSE 0) ])

\* a \div 2^k
BigShr(a, k) == BigShrBits(SubSeq(a, (k \div 10) + 1, Len(a)), k % 10)

\* The division of the limbs 1 .. i of a, below a remainder rem, by the
\* integer 0 < k < 2^21: << quotient, remainder >>, acc the quotient's limbs so far.
RECURSIVE BigDivFrom(_, _, _, _, _)
BigDivFrom(a, k, i, rem, acc) ==
    IF i = 0 THEN << BigTrim(acc), rem >>
    ELSE LET cur == rem * 1024 + a[i]
         IN  BigDivFrom(a, k, i - 1, cur % k, << cur \div k >> \o acc)

\* << a \div k, a % k >>
BigDivSmall(a, k) == BigDivFrom(a, k, Len(a), 0, << >>)

\* Number of bits of the integer 0 <= n < 1024
RECURSIVE SmallBitLen(_)
SmallBitLen(n) == IF n = 0 THEN 0 ELSE 1 + SmallBitLen(n \div 2)

\* Number of bits of a
BigBitLen(a) == IF a = << >> THEN 0 ELSE 10 * (Len(a) - 1) + SmallBitLen(a[Len(a)])

\* Bit i of a, bit 0 the least significant
BigBit(a, i) ==
    IF (i \div 10) + 1 > Len(a) THEN 0
    ELSE (a[(i \div 10) + 1] \div 2 ^ (i % 10)) % 2

\* TRUE iff one of the bits 0 .. i - 1 of a is set
BigLowBits(a, i) ==
    \E j \in 1 .. Len(a) :
        \/ j < (i \div 10) + 1 /\ a[j] # 0
        \/ j = (i \div 10) + 1 /\ a[j] % 2 ^ (i % 10) # 0

FloatZero == [ neg |-> FALSE, m |-> << >>, e |-> 0 ]

\* The double of sign neg, mantissa r and exponent e, r of mant_dig bits or
\* 2^mant_dig.
FloatNormal(neg, r, e) ==
    IF BigBitLen(r) > mant_dig
    THEN [ neg |-> neg, m |-> BigShr(r, 1), e |-> e + 1 ]
    ELSE [ neg |-> neg, m |-> r, e |-> e ]

\* TRUE iff (m + s) / 2^sh is rounded up to the next integer, ties to even.
RoundsUp(m, sh, inexact) ==
    /\ BigBit(m, sh - 1) = 1
    /\ (inexact \/ BigLowBits(m, sh - 1) \/ BigBit(m, sh) = 1)

\* FloatRound for a mantissa m of n bits
FloatRoundBits(neg, m, e, inexact, n) ==
    IF n = 0 THEN FloatZero
    ELSE IF n <= mant_dig
         THEN [ neg |-> neg, m |-> BigShl(m, mant_dig - n), e |-> e - (mant_dig - n) ]
    ELSE FloatNormal(neg,
                     IF RoundsUp(m, n - mant_dig, inexact)
                     THEN BigAdd(BigShr(m, n - mant_dig), << 1 >>)
                     ELSE BigShr(m, n - mant_dig),
                     e + (n - mant_dig))

\* The double nearest to (-1)^neg * (m + s) * 2^e, ties to even, where
\* 0 <= s < 1 and inexact tells whether s > 0 (then m has more than mant_dig bits).
FloatRound(neg, m, e, inexact) == FloatRoundBits(neg, m, e, inexact, BigBitLen(m))

\* float(n) for an integer n
FloatFromInt(n) == FloatRound(n < 0, BigFromInt(IF n < 0 THEN -n ELSE n), 0, FALSE)

\* The quotient << q, rem >> of a division as a float of sign neg and exponent e
FloatQuotient(neg, qr, e) == FloatRound(neg, qr[1], e, qr[2] # 0)

\* a / b for integers a and 0 < b < 2^21 (true division)
IntTrueDiv(a, b) ==
    IF a = 0 THEN FloatZero
    ELSE FloatQuotient(a < 0, BigDivSmall(BigShl(BigFromInt(IF a < 0 THEN -a ELSE a), 80), b), -80)

FloatNeg(f) == IF f.m = << >> THEN f ELSE [ f EXCEPT !.neg = ~f.neg ]

\* (-1)^fneg * a * 2^e + (-1)^gneg * b * 2^e
FloatAddAligned(fneg, a, gneg, b, e) ==
    FloatRound(IF fneg = gneg \/ BigCmp(a, b) >= 0 THEN fneg ELSE gneg,
               IF fneg = gneg THEN BigAdd(a, b)
               ELSE IF BigCmp(a, b) >= 0 THEN BigSub(a, b)
               ELSE BigSub(b, a),
               e, FALSE)

\* f + g, e the smaller of their exponents
FloatAddAt(f, g, e) == FloatAddAligned(f.neg, BigShl(f.m, f.e - e), g.neg, BigShl(g.m, g.e - e), e)

\* f + g
FloatAdd(f, g) ==
    IF f.m = << >> THEN g
    ELSE IF g.m = << >> THEN f
    ELSE FloatAddAt(f, g, IF f.e < g.e THEN f.e ELSE g.e)

\* f - g
FloatSub(f, g) == FloatAdd(f, FloatNeg(g))

\* f * g
FloatMul(f, g) == FloatRound(f.neg # g.neg, BigMul(f.m, g.m), f.e + g.e, FALSE)

\* -1, 0 or 1 as |f| < |g|, |f| = |g| or |f| > |g|, for f and g not zero
FloatCmpAbs(f, g) ==
    IF f.e # g.e THEN (IF f.e < g.e THEN -1 ELSE 1) ELSE BigCmp(f.m, g.m)

\* f <= g
FloatLe(f, g) ==
    IF f.m = << >> THEN g.m = << >> \/ ~g.neg
    ELSE IF g.m = << >> THEN f.neg
    ELSE IF f.neg # g.neg THEN f.neg
    ELSE IF f.neg THEN FloatCmpAbs(f, g) >= 0 ELSE FloatCmpAbs(f, g) <= 0

\* f < g
FloatLt(f, g) == ~FloatLe(g, f)

\* min(f, g): g when g < f, else f
FloatMin(f, g) == IF FloatLt(g, f) THEN g ELSE f

\* max(f, g): g when g > f, else f
FloatMax(f, g) == IF FloatLt(f, g) THEN g ELSE f

\* max(0, min(1, f))
FloatClamp(f) == FloatMax(FloatZero, FloatMin(FloatFromInt(1), f))

\* f * g before it is rounded
FloatProduct(f, g) == [ neg |-> f.neg # g.neg, m |-> BigMul(f.m, g.m), e |-> f.e + g.e ]

\* f * g + h rounded once (a fused multiply-add)
FloatFma(f, g, h) ==
    IF h.m = << >> THEN FloatMul(f, g) ELSE FloatAdd(FloatProduct(f, g), h)

\* The natural number of limbs a, a < 2^30
RECURSIVE BigToInt(_)
BigToInt(a) == IF a = << >> THEN 0 ELSE a[1] + 1024 * BigToInt(Tail(a))

\* int(f) for a float f whose value is an integer, |f| < 2^30
FloatToInt(f) ==
    IF f.m = << >> THEN 0
    ELSE (IF f.neg THEN -1 ELSE 1) * BigToInt(BigShr(f.m, -f.e))

\* The float written as << sign, six limbs of the mantissa, exponent >>
FloatOf(t) ==
    IF t[7] = 0 THEN FloatZero
    ELSE [ neg |-> t[1] = 1, m |-> SubSeq(t, 2, 7), e |-> t[8] ]

FloatOne == FloatFromInt(1)

----------------------------------------------------------------------------
(* x ** y on floats *)

(***************************************************************************)
(* x ** y on a float x is float_pow of CPython: 0.0 for x = 0 and y > 0,   *)
(* 1.0 for |x| = 1, and the C library's pow(|x|, y) for the exponents of   *)
(* the source, 2 and 0.5.  That pow is not correctly rounded.  It is the   *)
(* one of glibc 2.36 on an x86-64 processor with FMA: log_inline computes  *)
(* log |x| as hi + lo from the table pow_log_tab, exp_inline computes      *)
(* exp(y * (hi + lo)) from the table exp_tab.  pow_code lists the          *)
(* floating-point instructions of that path in the order the library       *)
(* executes them; each one rounds once.  The operands are normal doubles   *)
(* with |y * log |x|| < 512, which covers every coordinate below 2^30.     *)
(***************************************************************************)

\* __pow_log_data: ln2hi, ln2lo and poly[0 .. 6]
pow_Ln2hi == [ neg |-> FALSE, m |-> << 0, 654, 1007, 267, 558, 5 >>, e |-> -53 ]
pow_Ln2lo == [ neg |-> FALSE, m |-> << 816, 473, 316, 350, 755, 7 >>, e |-> -97 ]
pow_A0 == [ neg |-> TRUE, m |-> << 0, 0, 0, 0, 0, 4 >>, e |-> -53 ]
pow_A1 == [ neg |-> TRUE, m |-> << 352, 341, 341, 341, 341, 5 >>, e |-> -53 ]
pow_A2 == [ neg |-> FALSE, m |-> << 6, 0, 0, 0, 0, 4 >>, e |-> -53 ]
pow_A3 == [ neg |-> FALSE, m |-> << 334, 597, 405, 614, 409, 6 >>, e |-> -53 ]
pow_A4 == [ neg |-> TRUE, m |-> << 122, 617, 338, 341, 341, 5 >>, e |-> -53 ]
pow_A5 == [ neg |-> TRUE, m |-> << 489, 529, 436, 366, 585, 4 >>, e |-> -52 ]
pow_A6 == [ neg |-> FALSE, m |-> << 963, 399, 178, 174, 0, 4 >>, e |-> -52 ]

\* __exp_data: invln2N, shift, negln2hiN, negln2loN and poly[0 .. 3]
exp_InvLn2N == [ neg |-> FALSE, m |-> << 766, 736, 594, 285, 789, 5 >>, e |-> -45 ]
exp_Shift == [ neg |-> FALSE, m |-> << 0, 0, 0, 0, 0, 6 >>, e |-> 0 ]
exp_NegLn2hiN == [ neg |-> TRUE, m |-> << 0, 640, 1007, 267, 558, 5 >>, e |-> -60 ]
exp_NegLn2loN == [ neg |-> TRUE, m |-> << 826, 910, 969, 618, 247, 7 >>, e |-> -99 ]
exp_C2 == [ neg |-> FALSE, m |-> << 445, 1023, 1023, 1023, 1023, 7 >>, e |-> -54 ]
exp_C3 == [ neg |-> FALSE, m |-> << 60, 341, 341, 341, 341, 5 >>, e |-> -55 ]
exp_C4 == [ neg |-> FALSE, m |-> << 913, 458, 241, 343, 341, 5 >>, e |-> -57 ]
exp_C5 == [ neg |-> FALSE, m |-> << 23, 308, 634, 69, 273, 4 >>, e |-> -59 ]

\* __pow_log_data.tab: << invc, logc, logctail >> for i = 0 .. 127
pow_log_tab == <<
    << << 0, 0, 0, 0, 0, 672, 5, -52 >>, << 1, 0, 626, 811, 523, 556, 5, -54 >>, << 0, 640, 469, 643, 144, 692, 6, -100 >> >>,
    << << 0, 0, 0, 0, 0, 640, 5, -52 >>, << 1, 0, 514, 1013, 758, 465, 5, -54 >>, << 1, 800, 61, 398, 35, 165, 7, -98 >> >>,
    << << 0, 0, 0, 0, 0, 608, 5, -52 >>, << 1, 0, 342, 372, 476, 374, 5, -54 >>, << 1, 109, 404, 347, 659, 866, 4, -97 >> >>,
    << << 0, 0, 0, 0, 0, 576, 5, -52 >>, << 1, 0, 894, 114, 694, 282, 5, -54 >>, << 1, 981, 25, 491, 914, 644, 5, -101 >> >>,
    << << 0, 0, 0, 0, 0, 544, 5, -52 >>, << 1, 0, 478, 343, 382, 190, 5, -54 >>, << 1, 736, 591, 306, 422, 27, 5, -99 >> >>,
    << << 0, 0, 0, 0, 0, 512, 5, -52 >>, << 1, 0, 792, 33, 559, 97, 5, -54 >>, << 0, 204, 801, 132, 189, 984, 4, -98 >> >>,
    << << 0, 0, 0, 0, 0, 480, 5, -52 >>, << 1, 0, 426, 104, 194, 4, 5, -54 >>, << 0, 826, 130, 728, 975, 66, 7, -102 >> >>,
    << << 0, 0, 0, 0, 0, 448, 5, -52 >>, << 1, 0, 594, 342, 305, 934, 4, -54 >>, << 0, 96, 101, 101, 794, 177, 4, -97 >> >>,
    << << 0, 0, 0, 0, 0, 416, 5, -52 >>, << 1, 0, 544, 425, 886, 839, 4, -54 >>, << 0, 146, 352, 332, 311, 345, 5, -97 >> >>,
    << << 0, 0, 0, 0, 0, 384, 5, -52 >>, << 1, 0, 72, 942, 906, 744, 4, -54 >>, << 0, 984, 458, 411, 122, 635, 5, -97 >> >>,
    << << 0, 0, 0, 0, 0, 352, 5, -52 >>, << 1, 0, 930, 317, 360, 649, 4, -54 >>, << 0, 63, 1004, 876, 82, 458, 5, -98 >> >>,
    << << 0, 0, 0, 0, 0, 352, 5, -52 >>, << 1, 0, 930, 317, 360, 649, 4, -54 >>, << 0, 63, 1004, 876, 82, 458, 5, -98 >> >>,
    << << 0, 0, 0, 0, 0, 320, 5, -52 >>, << 1, 0, 990, 956, 263, 553, 4, -54 >>, << 1, 630, 246, 645, 144, 602, 5, -98 >> >>,
    << << 0, 0, 0, 0, 0, 288, 5, -52 >>, << 1, 0, 614, 22, 611, 456, 4, -54 >>, << 1, 4, 469, 654, 753, 943, 7, -98 >> >>,
    << << 0, 0, 0, 0, 0, 256, 5, -52 >>, << 1, 0, 746, 698, 370, 359, 4, -54 >>, << 0, 240, 170, 824, 792, 799, 7, -98 >> >>,
    << << 0, 0, 0, 0, 0, 224, 5, -52 >>, << 1, 0, 914, 922, 559, 261, 4, -54 >>, << 1, 614, 342, 976, 787, 680, 5, -97 >> >>,
    << << 0, 0, 0, 0, 0, 192, 5, -52 >>, << 1, 0, 228, 551, 147, 163, 4, -54 >>, << 1, 782, 256, 1007, 953, 107, 7, -99 >> >>,
    << << 0, 0, 0, 0, 0, 160, 5, -52 >>, << 1, 0, 308, 331, 150, 64, 4, -54 >>, << 1, 383, 267, 495, 738, 54, 4, -100 >> >>,
    << << 0, 0, 0, 0, 0, 160, 5, -52 >>, << 1, 0, 308, 331, 150, 64, 4, -54 >>, << 1, 383, 267, 495, 738, 54, 4, -100 >> >>,
    << << 0, 0, 0, 0, 0, 128, 5, -52 >>, << 1, 0, 912, 725, 97, 953, 7, -55 >>, << 0, 135, 591, 697, 170, 343, 7, -99 >> >>,
    << << 0, 0, 0, 0, 0, 96, 5, -52 >>, << 1, 0, 792, 189, 695, 752, 7, -55 >>, << 0, 804, 427, 456, 734, 806, 6, -97 >> >>,
    << << 0, 0, 0, 0, 0, 64, 5, -52 >>, << 1, 0, 700, 738, 29, 551, 7, -55 >>, << 1, 784, 1023, 323, 317, 815, 5, -98 >> >>,
    << << 0, 0, 0, 0, 0, 32, 5, -52 >>, << 1, 0, 1008, 692, 133, 348, 7, -55 >>, << 0, 27, 666, 956, 582, 442, 4, -97 >> >>,
    << << 0, 0, 0, 0, 0, 0, 5, -52 >>, << 1, 0, 680, 121, 991, 143, 7, -55 >>, << 0, 52, 993, 649, 317, 889, 5, -97 >> >>,
    << << 0, 0, 0, 0, 0, 0, 5, -52 >>, << 1, 0, 680, 121, 991, 143, 7, -55 >>, << 0, 52, 993, 649, 317, 889, 5, -97 >> >>,
    << << 0, 0, 0, 0, 0, 992, 4, -52 >>, << 1, 0, 868, 834, 537, 962, 6, -55 >>, << 0, 911, 749, 792, 704, 334, 6, -98 >> >>,
    << << 0, 0, 0, 0, 0, 960, 4, -52 >>, << 1, 0, 48, 232, 805, 755, 6, -55 >>, << 0, 102, 868, 1020, 396, 590, 6, -104 >> >>,
    << << 0, 0, 0, 0, 0, 928, 4, -52 >>, << 1, 0, 172, 510, 752, 547, 6, -55 >>, << 1, 490, 432, 452, 403, 396, 5, -97 >> >>,
    << << 0, 0, 0, 0, 0, 928, 4, -52 >>, << 1, 0, 172, 510, 752, 547, 6, -55 >>, << 1, 490, 432, 452, 403, 396, 5, -97 >> >>,
    << << 0, 0, 0, 0, 0, 896, 4, -52 >>, << 1, 0, 276, 463, 362, 338, 6, -55 >>, << 1, 227, 117, 76, 868, 721, 6, -97 >> >>,
    << << 0, 0, 0, 0, 0, 864, 4, -52 >>, << 1, 0, 52, 594, 641, 127, 6, -55 >>, << 0, 521, 766, 1021, 765, 957, 6, -97 >> >>,
    << << 0, 0, 0, 0, 0, 832, 4, -52 >>, << 1, 0, 56, 33, 548, 939, 5, -55 >>, << 0, 600, 210, 805, 577, 987, 6, -97 >> >>,
    << << 0, 0, 0, 0, 0, 832, 4, -52 >>, << 1, 0, 56, 33, 548, 939, 5, -55 >>, << 0, 600, 210, 805, 577, 987, 6, -97 >> >>,
    << << 0, 0, 0, 0, 0, 800, 4, -52 >>, << 1, 0, 628, 625, 63, 726, 5, -55 >>, << 1, 614, 184, 571, 426, 228, 4, -98 >> >>,
    << << 0, 0, 0, 0, 0, 768, 4, -52 >>, << 1, 0, 484, 778, 193, 511, 5, -55 >>, << 1, 57, 20, 497, 270, 670, 7, -98 >> >>,
    << << 0, 0, 0, 0, 0, 768, 4, -52 >>, << 1, 0, 484, 778, 193, 511, 5, -55 >>, << 1, 57, 20, 497, 270, 670, 7, -98 >> >>,
    << << 0, 0, 0, 0, 0, 736, 4, -52 >>, << 1, 0, 108, 570, 919, 294, 5, -55 >>, << 1, 911, 470, 256, 558, 222, 4, -97 >> >>,
    << << 0, 0, 0, 0, 0, 704, 4, -52 >>, << 1, 0, 736, 716, 173, 77, 5, -55 >>, << 0, 60, 350, 531, 773, 780, 5, -98 >> >>,
    << << 0, 0, 0, 0, 0, 704, 4, -52 >>, << 1, 0, 736, 716, 173, 77, 5, -55 >>, << 0, 60, 350, 531, 773, 780, 5, -98 >> >>,
    << << 0, 0, 0, 0, 0, 672, 4, -52 >>, << 1, 0, 932, 513, 1008, 881, 4, -55 >>, << 0, 58, 469, 210, 537, 376, 4, -100 >> >>,
    << << 0, 0, 0, 0, 0, 640, 4, -52 >>, << 1, 0, 1020, 897, 331, 661, 4, -55 >>, << 1, 8, 113, 375, 192, 141, 5, -97 >> >>,
    << << 0, 0, 0, 0, 0, 608, 4, -52 >>, << 1, 0, 984, 338, 171, 439, 4, -55 >>, << 1, 918, 104, 385, 656, 640, 7, -97 >> >>,
    << << 0, 0, 0, 0, 0, 608, 4, -52 >>, << 1, 0, 984, 338, 171, 439, 4, -55 >>, << 1, 918, 104, 385, 656, 640, 7, -97 >> >>,
    << << 0, 0, 0, 0, 0, 576, 4, -52 >>, << 1, 0, 36, 973, 505, 215, 4, -55 >>, << 0, 1012, 534, 142, 602, 617, 6, -99 >> >>,
    << << 0, 0, 0, 0, 0, 576, 4, -52 >>, << 1, 0, 36, 973, 505, 215, 4, -55 >>, << 0, 1012, 534, 142, 602, 617, 6, -99 >> >>,
    << << 0, 0, 0, 0, 0, 544, 4, -52 >>, << 1, 0, 760, 797, 580, 1004, 7, -56 >>, << 1, 1010, 204, 458, 337, 373, 5, -97 >> >>,
    << << 0, 0, 0, 0, 0, 512, 4, -52 >>, << 1, 0, 704, 738, 29, 551, 7, -56 >>, << 0, 60, 0, 687, 176, 564, 6, -97 >> >>,
    << << 0, 0, 0, 0, 0, 512, 4, -52 >>, << 1, 0, 704, 738, 29, 551, 7, -56 >>, << 0, 60, 0, 687, 176, 564, 6, -97 >> >>,
    << << 0, 0, 0, 0, 0, 480, 4, -52 >>, << 1, 0, 752, 245, 338, 94, 7, -56 >>, << 1, 518, 1007, 389, 349, 268, 7, -98 >> >>,
    << << 0, 0, 0, 0, 0, 448, 4, -52 >>, << 1, 0, 696, 932, 436, 658, 6, -56 >>, << 0, 712, 746, 645, 215, 313, 5, -97 >> >>,
    << << 0, 0, 0, 0, 0, 448, 4, -52 >>, << 1, 0, 696, 932, 436, 658, 6, -56 >>, << 0, 712, 746, 645, 215, 313, 5, -97 >> >>,
    << << 0, 0, 0, 0, 0, 416, 4, -52 >>, << 1, 0, 104, 355, 279, 195, 6, -56 >>, << 0, 616, 981, 210, 165, 892, 4, -98 >> >>,
    << << 0, 0, 0, 0, 0, 416, 4, -52 >>, << 1, 0, 104, 355, 279, 195, 6, -56 >>, << 0, 616, 981, 210, 165, 892, 4, -98 >> >>,
    << << 0, 0, 0, 0, 0, 384, 4, -52 >>, << 1, 0, 344, 174, 842, 752, 5, -56 >>, << 1, 986, 220, 147, 223, 663, 5, -97 >> >>,
    << << 0, 0, 0, 0, 0, 352, 4, -52 >>, << 1, 0, 392, 1008, 28, 283, 5, -56 >>, << 0, 599, 407, 540, 365, 770, 7, -98 >> >>,
    << << 0, 0, 0, 0, 0, 352, 4, -52 >>, << 1, 0, 392, 1008, 28, 283, 5, -56 >>, << 0, 599, 407, 540, 365, 770, 7, -98 >> >>,
    << << 0, 0, 0, 0, 0, 320, 4, -52 >>, << 1, 0, 760, 353, 862, 833, 4, -56 >>, << 0, 991, 580, 207, 875, 94, 7, -97 >> >>,
    << << 0, 0, 0, 0, 0, 320, 4, -52 >>, << 1, 0, 760, 353, 862, 833, 4, -56 >>, << 0, 991, 580, 207, 875, 94, 7, -97 >> >>,
    << << 0, 0, 0, 0, 0, 288, 4, -52 >>, << 1, 0, 224, 746, 219, 357, 4, -56 >>, << 0, 777, 1000, 872, 377, 124, 5, -98 >> >>,
    << << 0, 0, 0, 0, 0, 256, 4, -52 >>, << 1, 0, 96, 1, 195, 778, 7, -57 >>, << 0, 657, 419, 51, 634, 345, 7, -97 >> >>,
    << << 0, 0, 0, 0, 0, 256, 4, -52 >>, << 1, 0, 96, 1, 195, 778, 7, -57 >>, << 0, 657, 419, 51, 634, 345, 7, -97 >> >>,
    << << 0, 0, 0, 0, 0, 224, 4, -52 >>, << 1, 0, 608, 785, 885, 834, 6, -57 >>, << 0, 76, 412, 605, 491, 130, 7, -98 >> >>,
    << << 0, 0, 0, 0, 0, 224, 4, -52 >>, << 1, 0, 608, 785, 885, 834, 6, -57 >>, << 0, 76, 412, 605, 491, 130, 7, -98 >> >>,
    << << 0, 0, 0, 0, 0, 192, 4, -52 >>, << 1, 0, 176, 867, 355, 884, 5, -57 >>, << 1, 494, 168, 847, 280, 252, 7, -97 >> >>,
    << << 0, 0, 0, 0, 0, 192, 4, -52 >>, << 1, 0, 176, 867, 355, 884, 5, -57 >>, << 1, 494, 168, 847, 280, 252, 7, -97 >> >>,
    << << 0, 0, 0, 0, 0, 160, 4, -52 >>, << 1, 0, 944, 927, 542, 926, 4, -57 >>, << 0, 682, 447, 850, 735, 258, 5, -100 >> >>,
    << << 0, 0, 0, 0, 0, 160, 4, -52 >>, << 1, 0, 944, 927, 542, 926, 4, -57 >>, << 0, 682, 447, 850, 735, 258, 5, -100 >> >>,
    << << 0, 0, 0, 0, 0, 128, 4, -52 >>, << 1, 0, 512, 231, 620, 898, 7, -58 >>, << 1, 484, 898, 967, 153, 384, 6, -97 >> >>,
    << << 0, 0, 0, 0, 0, 128, 4, -52 >>, << 1, 0, 512, 231, 620, 898, 7, -58 >>, << 1, 484, 898, 967, 153, 384, 6, -97 >> >>,
    << << 0, 0, 0, 0, 0, 96, 4, -52 >>, << 1, 0, 352, 125, 108, 953, 5, -58 >>, << 1, 569, 681, 319, 338, 141, 6, -97 >> >>,
    << << 0, 0, 0, 0, 0, 64, 4, -52 >>, << 1, 0, 768, 783, 674, 960, 7, -59 >>, << 1, 668, 233, 877, 499, 798, 7, -102 >> >>,
    << << 0, 0, 0, 0, 0, 64, 4, -52 >>, << 1, 0, 768, 783, 674, 960, 7, -59 >>, << 1, 668, 233, 877, 499, 798, 7, -102 >> >>,
    << << 0, 0, 0, 0, 0, 32, 4, -52 >>, << 1, 0, 0, 689, 169, 992, 7, -60 >>, << 1, 228, 656, 221, 252, 482, 6, -98 >> >>,
    << << 0, 0, 0, 0, 0, 32, 4, -52 >>, << 1, 0, 0, 689, 169, 992, 7, -60 >>, << 1, 228, 656, 221, 252, 482, 6, -98 >> >>,
    << << 0, 0, 0, 0, 0, 0, 4, -52 >>, << 0, 0, 0, 0, 0, 0, 0, 0 >>, << 0, 0, 0, 0, 0, 0, 0, 0 >> >>,
    << << 0, 0, 0, 0, 0, 0, 4, -52 >>, << 0, 0, 0, 0, 0, 0, 0, 0 >>, << 0, 0, 0, 0, 0, 0, 0, 0 >> >>,
    << << 0, 0, 0, 0, 0, 960, 7, -53 >>, << 0, 0, 576, 856, 85, 16, 4, -59 >>, << 1, 1000, 842, 409, 430, 199, 4, -98 >> >>,
    << << 0, 0, 0, 0, 0, 896, 7, -53 >>, << 0, 0, 224, 393, 345, 32, 4, -58 >>, << 1, 978, 189, 110, 364, 988, 4, -97 >> >>,
    << << 0, 0, 0, 0, 0, 832, 7, -53 >>, << 0, 0, 576, 652, 148, 73, 6, -58 >>, << 1, 52, 643, 805, 744, 672, 6, -97 >> >>,
    << << 0, 0, 0, 0, 0, 768, 7, -53 >>, << 0, 0, 464, 158, 374, 65, 4, -57 >>, << 0, 851, 117, 463, 769, 273, 4, -99 >> >>,
    << << 0, 0, 0, 0, 0, 704, 7, -53 >>, << 0, 0, 896, 322, 699, 102, 5, -57 >>, << 1, 296, 895, 859, 461, 22, 7, -97 >> >>,
    << << 0, 0, 0, 0, 0, 640, 7, -53 >>, << 0, 0, 1008, 329, 680, 148, 6, -57 >>, << 1, 637, 649, 261, 599, 377, 6, -98 >> >>,
    << << 0, 0, 0, 0, 0, 576, 7, -53 >>, << 0, 0, 880, 221, 463, 203, 7, -57 >>, << 1, 7, 522, 125, 969, 616, 6, -98 >> >>,
    << << 0, 0, 0, 0, 0, 544, 7, -53 >>, << 0, 0, 432, 0, 199, 746, 7, -57 >>, << 1, 891, 590, 252, 249, 529, 7, -99 >> >>,
    << << 0, 0, 0, 0, 0, 480, 7, -53 >>, << 0, 0, 408, 276, 239, 407, 4, -56 >>, << 1, 667, 871, 352, 373, 306, 5, -97 >> >>,
    << << 0, 0, 0, 0, 0, 416, 7, -53 >>, << 0, 0, 120, 637, 982, 957, 4, -56 >>, << 0, 727, 723, 605, 378, 200, 7, -97 >> >>,
    << << 0, 0, 0, 0, 0, 352, 7, -53 >>, << 0, 0, 488, 217, 361, 489, 5, -56 >>, << 1, 286, 839, 965, 24, 105, 7, -97 >> >>,
    << << 0, 0, 0, 0, 0, 320, 7, -53 >>, << 0, 0, 688, 174, 844, 768, 5, -56 >>, << 0, 306, 891, 665, 566, 30, 7, -101 >> >>,
    << << 0, 0, 0, 0, 0, 256, 7, -53 >>, << 0, 0, 592, 469, 377, 307, 6, -56 >>, << 0, 986, 849, 939, 368, 785, 4, -97 >> >>,
    << << 0, 0, 0, 0, 0, 192, 7, -53 >>, << 0, 0, 856, 218, 802, 874, 6, -56 >>, << 1, 229, 474, 703, 512, 912, 4, -98 >> >>,
    << << 0, 0, 0, 0, 0, 160, 7, -53 >>, << 0, 0, 784, 27, 352, 136, 7, -56 >>, << 0, 211, 683, 101, 839, 582, 5, -97 >> >>,
    << << 0, 0, 0, 0, 0, 96, 7, -53 >>, << 0, 0, 648, 48, 230, 711, 7, -56 >>, << 1, 480, 401, 766, 418, 448, 7, -97 >> >>,
    << << 0, 0, 0, 0, 0, 64, 7, -53 >>, << 0, 0, 760, 925, 580, 1000, 7, -56 >>, << 1, 765, 66, 250, 857, 308, 5, -97 >> >>,
    << << 0, 0, 0, 0, 0, 0, 7, -53 >>, << 0, 0, 504, 34, 570, 279, 4, -55 >>, << 0, 1010, 833, 226, 483, 495, 4, -97 >> >>,
    << << 0, 0, 0, 0, 0, 992, 6, -53 >>, << 0, 0, 252, 994, 173, 426, 4, -55 >>, << 0, 308, 550, 67, 569, 167, 7, -97 >> >>,
    << << 0, 0, 0, 0, 0, 928, 6, -53 >>, << 0, 0, 416, 200, 388, 721, 4, -55 >>, << 0, 161, 109, 184, 435, 925, 4, -99 >> >>,
    << << 0, 0, 0, 0, 0, 896, 6, -53 >>, << 0, 0, 356, 769, 1010, 869, 4, -55 >>, << 0, 649, 732, 564, 672, 559, 5, -103 >> >>,
    << << 0, 0, 0, 0, 0, 832, 6, -53 >>, << 0, 0, 236, 51, 246, 145, 5, -55 >>, << 0, 632, 877, 335, 485, 387, 5, -97 >> >>,
    << << 0, 0, 0, 0, 0, 800, 6, -53 >>, << 0, 0, 108, 586, 919, 295, 5, -55 >>, << 0, 455, 607, 598, 931, 563, 5, -97 >> >>,
    << << 0, 0, 0, 0, 0, 736, 6, -53 >>, << 0, 0, 772, 1000, 314, 599, 5, -55 >>, << 0, 632, 779, 707, 556, 463, 6, -98 >> >>,
    << << 0, 0, 0, 0, 0, 704, 6, -53 >>, << 0, 0, 348, 183, 74, 752, 5, -55 >>, << 1, 481, 776, 601, 567, 273, 5, -97 >> >>,
    << << 0, 0, 0, 0, 0, 672, 6, -53 >>, << 0, 0, 276, 84, 566, 905, 5, -55 >>, << 1, 773, 80, 777, 65, 102, 7, -98 >> >>,
    << << 0, 0, 0, 0, 0, 608, 6, -53 >>, << 0, 0, 576, 691, 703, 190, 6, -55 >>, << 1, 209, 587, 686, 338, 829, 5, -99 >> >>,
    << << 0, 0, 0, 0, 0, 576, 6, -53 >>, << 0, 0, 448, 463, 363, 346, 6, -55 >>, << 0, 879, 63, 394, 161, 1010, 5, -99 >> >>,
    << << 0, 0, 0, 0, 0, 512, 6, -53 >>, << 0, 0, 696, 968, 948, 659, 6, -55 >>, << 1, 361, 392, 261, 269, 114, 6, -97 >> >>,
    << << 0, 0, 0, 0, 0, 480, 6, -53 >>, << 0, 0, 756, 373, 865, 817, 6, -55 >>, << 1, 426, 824, 234, 565, 53, 7, -99 >> >>,
    << << 0, 0, 0, 0, 0, 448, 6, -53 >>, << 0, 0, 760, 899, 540, 976, 6, -55 >>, << 1, 694, 260, 405, 785, 331, 7, -97 >> >>,
    << << 0, 0, 0, 0, 0, 416, 6, -53 >>, << 0, 0, 4, 111, 1007, 111, 7, -55 >>, << 1, 978, 394, 89, 459, 492, 4, -100 >> >>,
    << << 0, 0, 0, 0, 0, 352, 6, -53 >>, << 0, 0, 292, 781, 246, 433, 7, -55 >>, << 1, 53, 364, 881, 171, 767, 6, -97 >> >>,
    << << 0, 0, 0, 0, 0, 320, 6, -53 >>, << 0, 0, 452, 1022, 59, 595, 7, -55 >>, << 0, 48, 125, 516, 157, 530, 4, -103 >> >>,
    << << 0, 0, 0, 0, 0, 288, 6, -53 >>, << 0, 0, 832, 589, 695, 757, 7, -55 >>, << 1, 529, 739, 603, 85, 545, 6, -103 >> >>,
    << << 0, 0, 0, 0, 0, 256, 6, -53 >>, << 0, 0, 236, 715, 113, 921, 7, -55 >>, << 0, 816, 823, 160, 947, 971, 6, -98 >> >>,
    << << 0, 0, 0, 0, 0, 192, 6, -53 >>, << 0, 0, 854, 516, 225, 113, 4, -54 >>, << 0, 657, 851, 366, 876, 156, 6, -100 >> >>,
    << << 0, 0, 0, 0, 0, 160, 6, -53 >>, << 0, 0, 88, 630, 181, 196, 4, -54 >>, << 0, 745, 826, 355, 556, 792, 5, -97 >> >>,
    << << 0, 0, 0, 0, 0, 128, 6, -53 >>, << 0, 0, 506, 34, 570, 279, 4, -54 >>, << 1, 28, 380, 570, 57, 33, 7, -97 >> >>,
    << << 0, 0, 0, 0, 0, 96, 6, -53 >>, << 0, 0, 830, 186, 371, 363, 4, -54 >>, << 0, 641, 325, 890, 823, 922, 6, -97 >> >>,
    << << 0, 0, 0, 0, 0, 64, 6, -53 >>, << 0, 0, 666, 565, 613, 447, 4, -54 >>, << 0, 439, 495, 276, 949, 166, 7, -97 >> >>,
    << << 0, 0, 0, 0, 0, 32, 6, -53 >>, << 0, 0, 942, 720, 277, 532, 4, -54 >>, << 0, 746, 430, 932, 890, 647, 6, -99 >> >>,
    << << 0, 0, 0, 0, 0, 992, 5, -53 >>, << 0, 0, 804, 973, 961, 702, 4, -54 >>, << 0, 244, 1, 165, 1001, 668, 6, -97 >> >>,
    << << 0, 0, 0, 0, 0, 960, 5, -53 >>, << 0, 0, 216, 541, 967, 788, 4, -54 >>, << 1, 184, 79, 306, 491, 226, 6, -97 >> >>,
    << << 0, 0, 0, 0, 0, 928, 5, -53 >>, << 0, 0, 900, 875, 413, 875, 4, -54 >>, << 0, 968, 93, 783, 822, 366, 4, -98 >> >>,
    << << 0, 0, 0, 0, 0, 896, 5, -53 >>, << 0, 0, 204, 883, 329, 962, 4, -54 >>, << 0, 348, 431, 864, 338, 59, 6, -98 >> >>,
    << << 0, 0, 0, 0, 0, 864, 5, -53 >>, << 0, 0, 378, 573, 720, 25, 5, -54 >>, << 0, 157, 56, 713, 219, 228, 6, -99 >> >>,
    << << 0, 0, 0, 0, 0, 832, 5, -53 >>, << 0, 0, 114, 39, 567, 113, 5, -54 >>, << 1, 629, 501, 150, 824, 807, 7, -97 >> >>,
    << << 0, 0, 0, 0, 0, 800, 5, -53 >>, << 0, 0, 460, 481, 898, 201, 5, -54 >>, << 1, 164, 694, 432, 548, 544, 7, -97 >> >>,
    << << 0, 0, 0, 0, 0, 768, 5, -53 >>, << 0, 0, 552, 115, 696, 290, 5, -54 >>, << 0, 857, 305, 22, 450, 702, 7, -97 >> >>,
    << << 0, 0, 0, 0, 0, 736, 5, -53 >>, << 0, 0, 564, 316, 989, 379, 5, -54 >>, << 0, 239, 848, 741, 951, 941, 7, -98 >> >>,
    << << 0, 0, 0, 0, 0, 704, 5, -53 >>, << 0, 0, 600, 501, 759, 469, 5, -54 >>, << 1, 476, 281, 138, 168, 523, 6, -99 >> >>
>>

\* __exp_data.tab: << tail, 2^(j/128) >> for j = 0 .. 127
exp_tab == <<
    << << 0, 0, 0, 0, 0, 0, 0, 0 >>, << 0, 0, 0, 0, 0, 0, 4, -52 >> >>,
    << << 0, 878, 559, 424, 316, 827, 6, -106 >>, << 0, 821, 716, 671, 246, 22, 4, -52 >> >>,
    << << 1, 93, 567, 461, 78, 352, 4, -108 >>, << 0, 97, 480, 999, 616, 44, 4, -52 >> >>,
    << << 1, 721, 473, 264, 488, 94, 4, -106 >>, << 0, 901, 927, 646, 87, 67, 4, -52 >> >>,
    << << 0, 531, 509, 854, 328, 210, 7, -107 >>, << 0, 372, 353, 305, 707, 89, 4, -52 >> >>,
    << << 1, 762, 611, 575, 512, 974, 6, -107 >>, << 0, 734, 893, 669, 428, 112, 4, -52 >> >>,
    << << 0, 97, 434, 542, 313, 247, 4, -109 >>, << 0, 968, 358, 391, 276, 135, 4, -52 >> >>,
    << << 0, 921, 244, 435, 913, 163, 4, -106 >>, << 0, 899, 444, 172, 251, 158, 4, -52 >> >>,
    << << 0, 877, 222, 472, 665, 922, 5, -106 >>, << 0, 271, 610, 719, 353, 181, 4, -52 >> >>,
    << << 0, 1020, 891, 303, 106, 693, 7, -107 >>, << 0, 1015, 145, 695, 584, 204, 4, -52 >> >>,
    << << 0, 209, 999, 770, 245, 702, 7, -112 >>, << 0, 418, 244, 813, 944, 227, 4, -52 >> >>,
    << << 1, 523, 27, 153, 210, 515, 6, -109 >>, << 0, 795, 948, 767, 410, 251, 4, -52 >> >>,
    << << 1, 270, 1007, 674, 328, 342, 5, -106 >>, << 0, 849, 150, 257, 7, 275, 4, -52 >> >>,
    << << 1, 597, 954, 196, 958, 128, 4, -110 >>, << 0, 460, 780, 6, 759, 298, 4, -52 >> >>,
    << << 1, 22, 381, 925, 142, 457, 4, -106 >>, << 0, 480, 587, 746, 618, 322, 4, -52 >> >>,
    << << 0, 431, 789, 661, 911, 211, 4, -107 >>, << 0, 593, 355, 138, 611, 346, 4, -52 >> >>,
    << << 1, 840, 356, 682, 87, 27, 4, -107 >>, << 0, 379, 852, 967, 736, 370, 4, -52 >> >>,
    << << 1, 573, 908, 349, 961, 799, 7, -107 >>, << 0, 490, 803, 904, 996, 394, 4, -52 >> >>,
    << << 0, 959, 212, 1009, 560, 905, 6, -107 >>, << 0, 885, 1010, 694, 367, 419, 4, -52 >> >>,
    << << 1, 806, 122, 865, 625, 729, 5, -106 >>, << 0, 212, 279, 64, 898, 443, 4, -52 >> >>,
    << << 0, 864, 651, 995, 988, 748, 6, -106 >>, << 0, 426, 558, 790, 540, 468, 4, -52 >> >>,
    << << 1, 157, 398, 184, 523, 999, 7, -107 >>, << 0, 285, 822, 559, 320, 493, 4, -52 >> >>,
    << << 0, 909, 432, 74, 261, 623, 6, -107 >>, << 0, 214, 163, 134, 238, 518, 4, -52 >> >>,
    << << 0, 125, 257, 782, 22, 122, 4, -107 >>, << 0, 150, 887, 279, 294, 543, 4, -52 >> >>,
    << << 0, 148, 554, 570, 1015, 654, 5, -106 >>, << 0, 568, 344, 743, 489, 568, 4, -52 >> >>,
    << << 0, 125, 274, 807, 99, 862, 5, -107 >>, << 0, 575, 169, 251, 825, 593, 4, -52 >> >>,
    << << 0, 1010, 1017, 385, 174, 71, 4, -107 >>, << 0, 221, 159, 606, 277, 619, 4, -52 >> >>,
    << << 1, 94, 66, 1015, 492, 696, 5, -106 >>, << 0, 897, 344, 543, 895, 644, 4, -52 >> >>,
    << << 0, 817, 618, 720, 901, 759, 4, -107 >>, << 0, 737, 1015, 849, 631, 670, 4, -52 >> >>,
    << << 1, 1018, 1007, 422, 620, 289, 7, -112 >>, << 0, 400, 694, 269, 511, 696, 4, -52 >> >>,
    << << 0, 692, 770, 800, 521, 823, 6, -107 >>, << 0, 779, 256, 622, 534, 722, 4, -52 >> >>,
    << << 0, 911, 946, 156, 586, 532, 7, -109 >>, << 0, 854, 907, 659, 702, 748, 4, -52 >> >>,
    << << 0, 950, 42, 219, 469, 845, 4, -107 >>, << 0, 789, 109, 163, 1016, 774, 4, -52 >> >>,
    << << 0, 76, 797, 554, 7, 578, 5, -107 >>, << 0, 49, 822, 964, 451, 801, 4, -52 >> >>,
    << << 0, 74, 254, 477, 229, 989, 7, -107 >>, << 0, 767, 261, 806, 34, 828, 4, -52 >> >>,
    << << 1, 772, 918, 952, 512, 675, 5, -107 >>, << 0, 1009, 167, 505, 789, 854, 4, -52 >> >>,
    << << 1, 104, 724, 196, 951, 586, 4, -106 >>, << 0, 459, 682, 883, 668, 881, 4, -52 >> >>,
    << << 1, 398, 75, 437, 992, 263, 6, -106 >>, << 0, 102, 374, 720, 697, 908, 4, -52 >> >>,
    << << 1, 722, 269, 1001, 928, 465, 4, -108 >>, << 0, 1015, 359, 846, 876, 935, 4, -52 >> >>,
    << << 1, 789, 902, 828, 102, 281, 6, -106 >>, << 0, 229, 234, 49, 183, 963, 4, -52 >> >>,
    << << 0, 109, 659, 626, 290, 415, 5, -107 >>, << 0, 34, 141, 193, 665, 990, 4, -52 >> >>,
    << << 1, 394, 538, 930, 385, 786, 4, -106 >>, << 0, 28, 800, 74, 276, 1018, 4, -52 >> >>,
    << << 1, 347, 482, 129, 573, 167, 6, -110 >>, << 0, 554, 459, 543, 40, 22, 5, -52 >> >>,
    << << 1, 539, 614, 628, 621, 44, 7, -108 >>, << 0, 151, 42, 405, 983, 49, 5, -52 >> >>,
    << << 0, 17, 171, 524, 949, 867, 4, -111 >>, << 0, 301, 98, 518, 33, 78, 5, -52 >> >>,
    << << 0, 239, 409, 944, 36, 614, 5, -106 >>, << 0, 87, 832, 721, 263, 106, 5, -52 >> >>,
    << << 0, 889, 64, 426, 903, 716, 7, -109 >>, << 0, 208, 79, 860, 650, 134, 5, -52 >> >>,
    << << 0, 560, 964, 1008, 568, 1023, 4, -106 >>, << 0, 990, 500, 781, 171, 163, 5, -52 >> >>,
    << << 0, 944, 683, 951, 826, 656, 5, -108 >>, << 0, 551, 394, 339, 875, 191, 5, -52 >> >>,
    << << 0, 119, 312, 693, 759, 797, 4, -106 >>, << 0, 269, 887, 415, 714, 220, 5, -52 >> >>,
    << << 1, 910, 104, 7, 208, 916, 7, -107 >>, << 0, 167, 843, 873, 713, 249, 5, -52 >> >>,
    << << 1, 841, 232, 457, 819, 990, 5, -107 >>, << 0, 578, 985, 556, 874, 278, 5, -52 >> >>,
    << << 1, 95, 974, 976, 794, 222, 6, -108 >>, << 0, 898, 851, 361, 173, 308, 5, -52 >> >>,
    << << 1, 246, 727, 711, 283, 530, 5, -107 >>, << 0, 527, 868, 165, 659, 337, 5, -52 >> >>,
    << << 0, 910, 885, 399, 20, 821, 4, -106 >>, << 0, 986, 329, 875, 284, 367, 5, -52 >> >>,
    << << 0, 773, 678, 760, 732, 920, 6, -108 >>, << 0, 1021, 497, 329, 75, 397, 5, -52 >> >>,
    << << 0, 9, 789, 545, 903, 99, 4, -106 >>, << 0, 41, 533, 468, 31, 427, 5, -52 >> >>,
    << << 0, 746, 625, 257, 533, 199, 5, -112 >>, << 0, 695, 593, 165, 154, 457, 5, -52 >> >>,
    << << 0, 53, 304, 694, 920, 50, 5, -106 >>, << 0, 328, 840, 346, 444, 487, 5, -52 >> >>,
    << << 1, 671, 605, 537, 297, 228, 7, -107 >>, << 0, 9, 439, 919, 902, 517, 5, -52 >> >>,
    << << 1, 424, 979, 958, 788, 51, 7, -107 >>, << 0, 389, 661, 771, 506, 548, 5, -52 >> >>,
    << << 1, 430, 762, 146, 482, 83, 5, -107 >>, << 0, 800, 816, 844, 280, 579, 5, -52 >> >>,
    << << 1, 88, 406, 901, 885, 974, 4, -106 >>, << 0, 549, 328, 37, 226, 610, 5, -52 >> >>,
    << << 0, 356, 902, 7, 682, 784, 5, -110 >>, << 0, 371, 810, 324, 343, 641, 5, -52 >> >>,
    << << 1, 552, 904, 1013, 958, 947, 4, -106 >>, << 0, 973, 974, 615, 633, 672, 5, -52 >> >>,
    << << 1, 386, 302, 115, 694, 530, 6, -109 >>, << 0, 703, 758, 848, 73, 704, 5, -52 >> >>,
    << << 1, 494, 874, 902, 958, 871, 4, -109 >>, << 0, 559, 326, 966, 712, 735, 5, -52 >> >>,
    << << 1, 81, 34, 334, 245, 220, 4, -107 >>, << 0, 132, 101, 917, 503, 767, 5, -52 >> >>,
    << << 1, 719, 655, 997, 401, 31, 6, -108 >>, << 0, 884, 791, 654, 471, 799, 5, -52 >> >>,
    << << 1, 432, 735, 8, 299, 750, 5, -107 >>, << 0, 372, 352, 138, 617, 831, 5, -52 >> >>,
    << << 1, 650, 377, 485, 200, 537, 5, -107 >>, << 0, 969, 153, 356, 941, 863, 5, -52 >> >>,
    << << 0, 211, 629, 480, 813, 156, 4, -106 >>, << 0, 319, 919, 253, 421, 896, 5, -52 >> >>,
    << << 1, 285, 873, 916, 882, 818, 6, -108 >>, << 0, 391, 704, 830, 81, 929, 5, -52 >> >>,
    << << 0, 107, 496, 326, 1013, 236, 5, -106 >>, << 0, 306, 48, 19, 948, 961, 5, -52 >> >>,
    << << 0, 85, 411, 701, 902, 491, 5, -109 >>, << 0, 610, 979, 876, 972, 994, 5, -52 >> >>,
    << << 1, 834, 243, 763, 788, 161, 6, -107 >>, << 0, 530, 902, 323, 157, 4, 6, -52 >> >>,
    << << 1, 820, 717, 787, 731, 873, 4, -106 >>, << 0, 531, 819, 404, 550, 37, 6, -52 >> >>,
    << << 1, 798, 639, 929, 528, 94, 4, -107 >>, << 0, 941, 241, 98, 105, 71, 6, -52 >> >>,
    << << 1, 878, 149, 391, 323, 212, 5, -106 >>, << 0, 749, 292, 436, 870, 104, 6, -52 >> >>,
    << << 0, 512, 930, 432, 413, 173, 4, -106 >>, << 0, 665, 665, 408, 799, 138, 6, -52 >> >>,
    << << 0, 692, 58, 31, 191, 439, 7, -107 >>, << 0, 219, 680, 34, 917, 172, 6, -52 >> >>,
    << << 1, 1023, 377, 460, 386, 438, 5, -109 >>, << 0, 140, 337, 363, 200, 207, 6, -52 >> >>,
    << << 0, 836, 215, 415, 525, 1014, 6, -108 >>, << 0, 822, 349, 401, 698, 241, 6, -52 >> >>,
    << << 1, 387, 911, 625, 126, 777, 4, -106 >>, << 0, 966, 127, 185, 364, 276, 6, -52 >> >>,
    << << 1, 553, 775, 182, 738, 425, 7, -110 >>, << 0, 485, 881, 780, 222, 311, 6, -52 >> >>,
    << << 1, 345, 46, 969, 997, 35, 7, -109 >>, << 0, 527, 532, 188, 275, 346, 6, -52 >> >>,
    << << 1, 426, 318, 559, 268, 579, 4, -106 >>, << 0, 592, 915, 509, 522, 381, 6, -52 >> >>,
    << << 1, 587, 419, 374, 435, 458, 5, -107 >>, << 0, 954, 641, 780, 965, 416, 6, -52 >> >>,
    << << 0, 551, 115, 697, 1008, 431, 4, -108 >>, << 0, 144, 252, 42, 582, 452, 6, -52 >> >>,
    << << 0, 955, 668, 528, 215, 466, 7, -109 >>, << 0, 803, 200, 414, 396, 488, 6, -52 >> >>,
    << << 1, 611, 136, 550, 16, 965, 5, -107 >>, << 0, 357, 889, 949, 409, 524, 6, -52 >> >>,
    << << 0, 469, 140, 574, 539, 796, 6, -107 >>, << 0, 307, 651, 708, 623, 560, 6, -52 >> >>,
    << << 1, 789, 814, 315, 839, 443, 4, -106 >>, << 0, 349, 905, 803, 14, 597, 6, -52 >> >>,
    << << 0, 466, 908, 462, 198, 204, 4, -106 >>, << 0, 856, 44, 307, 632, 633, 6, -52 >> >>,
    << << 0, 691, 214, 743, 529, 105, 5, -107 >>, << 0, 447, 639, 343, 429, 670, 6, -52 >> >>,
    << << 1, 436, 935, 376, 822, 735, 4, -107 >>, << 0, 890, 252, 1021, 430, 707, 6, -52 >> >>,
    << << 0, 903, 716, 300, 478, 26, 7, -107 >>, << 0, 941, 692, 405, 638, 744, 6, -52 >> >>,
    << << 1, 506, 118, 173, 573, 123, 4, -106 >>, << 0, 614, 877, 664, 28, 782, 6, -52 >> >>,
    << << 1, 698, 811, 365, 869, 451, 5, -110 >>, << 0, 507, 965, 900, 650, 819, 6, -52 >> >>,
    << << 1, 576, 445, 986, 56, 164, 4, -106 >>, << 0, 314, 342, 222, 458, 857, 6, -52 >> >>,
    << << 1, 820, 868, 906, 976, 214, 6, -109 >>, << 0, 583, 727, 815, 475, 895, 6, -52 >> >>,
    << << 1, 565, 546, 693, 905, 494, 4, -106 >>, << 0, 586, 65, 778, 704, 933, 6, -52 >> >>,
    << << 0, 461, 1015, 165, 860, 255, 5, -108 >>, << 0, 466, 752, 260, 122, 972, 6, -52 >> >>,
    << << 1, 172, 166, 937, 1007, 445, 4, -106 >>, << 0, 521, 455, 445, 777, 1010, 6, -52 >> >>,
    << << 0, 179, 963, 778, 696, 878, 4, -108 >>, << 0, 668, 340, 472, 623, 25, 7, -52 >> >>,
    << << 0, 404, 1023, 457, 201, 739, 7, -107 >>, << 0, 122, 1012, 511, 685, 64, 7, -52 >> >>,
    << << 0, 428, 598, 272, 575, 224, 5, -107 >>, << 0, 331, 500, 741, 964, 103, 7, -52 >> >>,
    << << 0, 615, 902, 900, 700, 973, 4, -109 >>, << 0, 949, 441, 320, 438, 143, 7, -52 >> >>,
    << << 0, 360, 134, 713, 177, 875, 5, -109 >>, << 0, 105, 996, 462, 131, 183, 7, -52 >> >>,
    << << 1, 466, 813, 60, 98, 138, 4, -107 >>, << 0, 1018, 880, 341, 45, 223, 7, -52 >> >>,
    << << 1, 623, 1022, 1023, 372, 941, 7, -107 >>, << 0, 380, 482, 160, 181, 263, 7, -52 >> >>,
    << << 1, 329, 362, 903, 696, 13, 4, -106 >>, << 0, 498, 866, 128, 540, 303, 7, -52 >> >>,
    << << 0, 935, 833, 611, 534, 163, 5, -108 >>, << 0, 135, 745, 463, 99, 344, 7, -52 >> >>,
    << << 1, 527, 8, 516, 632, 657, 4, -107 >>, << 0, 920, 608, 364, 908, 384, 7, -52 >> >>,
    << << 0, 684, 100, 348, 323, 602, 7, -107 >>, << 0, 645, 716, 61, 920, 425, 7, -52 >> >>,
    << << 0, 843, 90, 704, 358, 58, 5, -107 >>, << 0, 96, 109, 816, 135, 467, 7, -52 >> >>,
    << << 1, 543, 271, 123, 132, 725, 4, -107 >>, << 0, 863, 742, 823, 604, 508, 7, -52 >> >>,
    << << 1, 457, 451, 948, 740, 298, 6, -107 >>, << 0, 297, 360, 335, 280, 550, 7, -52 >> >>,
    << << 0, 211, 674, 515, 17, 182, 5, -108 >>, << 0, 1014, 719, 632, 187, 592, 7, -52 >> >>,
    << << 0, 625, 860, 281, 945, 965, 4, -107 >>, << 0, 131, 467, 956, 327, 634, 7, -52 >> >>,
    << << 1, 496, 228, 253, 74, 1015, 7, -107 >>, << 0, 218, 292, 554, 702, 676, 7, -52 >> >>,
    << << 1, 125, 221, 546, 611, 430, 7, -107 >>, << 0, 1009, 921, 728, 288, 719, 7, -52 >> >>,
    << << 0, 8, 648, 26, 753, 707, 7, -107 >>, << 0, 551, 86, 742, 111, 762, 7, -52 >> >>,
    << << 0, 818, 634, 58, 595, 43, 5, -107 >>, << 0, 663, 750, 886, 172, 805, 7, -52 >> >>,
    << << 0, 494, 97, 797, 676, 612, 6, -107 >>, << 0, 320, 913, 438, 473, 848, 7, -52 >> >>,
    << << 1, 1005, 760, 579, 747, 567, 7, -107 >>, << 0, 532, 815, 729, 1014, 891, 7, -52 >> >>,
    << << 0, 413, 115, 217, 237, 905, 5, -108 >>, << 0, 216, 932, 25, 774, 935, 7, -52 >> >>,
    << << 0, 137, 51, 22, 773, 773, 4, -110 >>, << 0, 497, 988, 696, 776, 979, 7, -52 >> >>
>>

\* The 53-bit mantissa of the double whose bits are OFF = 0x3fe6955500000000
pow_off_mant == << 0, 0, 0, 340, 661, 5 >>

\* TRUE iff the fraction bits of the mantissa m are below those of OFF
pow_below_off(m) == BigCmp(m, pow_off_mant) < 0

\* k = (ix - OFF) >> 52 for the double of mantissa m and exponent e
pow_k(m, e) == e + 53 - (IF pow_below_off(m) THEN 1 ELSE 0)

\* i = ((ix - OFF) >> 45) % 128
pow_i(m) ==
    BigToInt(BigShr(IF pow_below_off(m)
                    THEN BigSub(BigAdd(m, BigShl(<< 1 >>, 52)), pow_off_mant)
                    ELSE BigSub(m, pow_off_mant),
                    45))

\* z = asdouble(ix - (k << 52)), in [OFF, 2 * OFF)
pow_z(m) == [ neg |-> FALSE, m |-> m, e |-> IF pow_below_off(m) THEN -52 ELSE -53 ]

\* tail = asdouble(T[idx]) for ki = asuint64(kd + Shift) and idx = 2 * (ki % 128)
exp_tail(kd) == FloatOf(exp_tab[(FloatToInt(kd) % 128) + 1][1])

\* 2^(j/128) for j = n % 128, times 2^((n - j) / 128)
exp_scale_of(n, j) == [ FloatOf(exp_tab[j + 1][2]) EXCEPT !.e = @ + ((n - j) \div 128) ]

\* scale = asdouble(T[idx + 1] + (ki << 45))
exp_scale(kd) == exp_scale_of(FloatToInt(kd), FloatToInt(kd) % 128)

\* The instructions << destination, operation, operands >> of pow after the
\* table lookup of log_inline: log_inline, the product with y, exp_inline.
pow_code == <<
    << "t1", "fma", "kd", "Ln2hi", "logc" >>,
    << "lo1", "fma", "kd", "Ln2lo", "logctail" >>,
    << "r", "fma", "z", "invc", "minus_one" >>,
    << "ar", "mul", "r", "A0", "" >>,
    << "q1", "fma", "r", "A2", "A1" >>,
    << "q2", "fma", "r", "A4", "A3" >>,
    << "t2", "add", "r", "t1", "" >>,
    << "ar2", "mul", "r", "ar", "" >>,
    << "d1", "sub", "t1", "t2", "" >>,
    << "ar3", "mul", "r", "ar2", "" >>,
    << "lo3", "fms", "ar", "r", "ar2" >>,
    << "lo2", "add", "d1", "r", "" >>,
    << "q3", "fma", "r", "A6", "A5" >>,
    << "hi", "add", "t2", "ar2", "" >>,
    << "d2", "sub", "t2", "hi", "" >>,
    << "q23", "fma", "q3", "ar2", "q2" >>,
    << "lo4", "add", "d2", "ar2", "" >>,
    << "p", "fma", "ar2", "q23", "q1" >>,
    << "s1", "add", "lo1", "lo2", "" >>,
    << "s2", "add", "s1", "lo3", "" >>,
    << "s3", "add", "s2", "lo4", "" >>,
    << "lo", "fma", "ar3", "p", "s3" >>,
    << "log_hi", "add", "hi", "lo", "" >>,
    << "d3", "sub", "hi", "log_hi", "" >>,
    << "log_lo", "add", "d3", "lo", "" >>,
    << "ehi", "mul", "y", "log_hi", "" >>,
    << "e1", "fms", "log_hi", "y", "ehi" >>,
    << "elo", "fma", "y", "log_lo", "e1" >>,
    << "near_one", "add", "ehi", "one", "" >>,
    << "kd_shift", "fma", "ehi", "InvLn2N", "Shift" >>,
    << "kd", "sub", "kd_shift", "Shift", "" >>,
    << "x1", "fma", "kd", "NegLn2hiN", "ehi" >>,
    << "x2", "fma", "kd", "NegLn2loN", "x1" >>,
    << "r", "add", "elo", "x2", "" >>,
    << "tail", "tail", "kd", "", "" >>,
    << "scale", "scale", "kd", "", "" >>,
    << "c23", "fma", "r", "C3", "C2" >>,
    << "rt", "add", "r", "tail", "" >>,
    << "r2", "mul", "r", "r", "" >>,
    << "c45", "fma", "r", "C5", "C4" >>,
    << "s", "fma", "c23", "r2", "rt" >>,
    << "r4", "mul", "r2", "r2", "" >>,
    << "tmp", "fma", "c45", "r4", "s" >>,
    << "result", "fma", "tmp", "scale", "scale" >> >>

\* The value of one instruction on the operands a, b and c
pow_exec(op, a, b, c) ==
    CASE op = "fma" -> FloatFma(a, b, c)
      [] op = "fms" -> FloatFma(a, b, FloatNeg(c))
      [] op = "mul" -> FloatMul(a, b)
      [] op = "add" -> FloatAdd(a, b)
      [] op = "sub" -> FloatSub(a, b)
      [] op = "tail" -> exp_tail(a)
      [] op = "scale" -> exp_scale(a)

\* The registers after the instruction ins
pow_step(ins, regs) ==
    (ins[1] :> pow_exec(ins[2], regs[ins[3]], regs[ins[4]], regs[ins[5]])) @@ regs

\* The registers after the instructions lo .. hi; an instruction whose first
\* operand is not a register stops the run.
RECURSIVE pow_run(_, _, _)
pow_run(regs, lo, hi) ==
    IF pow_code[lo][3] \notin DOMAIN regs THEN regs
    ELSE IF lo = hi THEN pow_step(pow_code[lo], regs)
    ELSE pow_run(pow_run(regs, lo, (lo + hi) \div 2), ((lo + hi) \div 2) + 1, hi)

\* The registers before the first instruction: the constants, y, and kd, z and
\* the table entry tab of log_inline
pow_regs(y, kd, z, tab) ==
    [ y |-> y, kd |-> kd, z |-> z,
      invc |-> FloatOf(tab[1]), logc |-> FloatOf(tab[2]), logctail |-> FloatOf(tab[3]),
      Ln2hi |-> pow_Ln2hi, Ln2lo |-> pow_Ln2lo,
      A0 |-> pow_A0, A1 |-> pow_A1, A2 |-> pow_A2, A3 |-> pow_A3,
      A4 |-> pow_A4, A5 |-> pow_A5, A6 |-> pow_A6,
      InvLn2N |-> exp_InvLn2N, Shift |-> exp_Shift,
      NegLn2hiN |-> exp_NegLn2hiN, NegLn2loN |-> exp_NegLn2loN,
      C2 |-> exp_C2, C3 |-> exp_C3, C4 |-> exp_C4, C5 |-> exp_C5,
      one |-> FloatOne, minus_one |-> FloatNeg(FloatOne) ] @@ ("" :> FloatZero)

\* The result of pow from its registers: 1.0 + ehi when |ehi| < 2^-54
pow_result(regs) ==
    IF regs["ehi"].m = << >> \/ regs["ehi"].e + 52 < -54
    THEN regs["near_one"]
    ELSE regs["result"]

\* pow(x, y) of the C library for the double x > 0 of mantissa m and exponent e
pow(m, e, y) ==
    pow_result(pow_run(pow_regs(y, FloatFromInt(pow_k(m, e)), pow_z(m), pow_log_tab[pow_i(m) + 1]),
                       1, Len(pow_code)))

\* f ** y for y > 0 (float_pow)
FloatPow(f, y) ==
    IF f.m = << >> THEN FloatZero
    ELSE IF f.m = FloatOne.m /\ f.e = FloatOne.e THEN FloatOne
    ELSE pow(f.m, f.e, y)

\* f ** 2
FloatSquare(f) == FloatPow(f, FloatFromInt(2))

\* f ** 0.5 for f >= 0
FloatSqrt(f) == FloatPow(f, [ neg |-> FALSE, m |-> FloatOne.m, e |-> FloatOne.e - 1 ])

----------------------------------------------------------------------------
(* Pure helpers *)

\* (x - px) ** 2 + (y - py) ** 2, the radicand of the distance expressions
dist_squared(x, y, px, py) == (x - px) * (x - px) + (y - py) * (y - py)

\* str.lower() on the key symbols of the model
lower(k) == IF k = "D" THEN "d" ELSE IF k = "X" THEN "x" ELSE k

\* Variant of list_insert: overwrites element i instead of shifting the tail.
list_insert_overwrite(lst, i, v) ==
    IF i < Len(lst) THEN [ lst EXCEPT ![i + 1] = v ] ELSE lst \o << v >>

\* list.insert(i, v) for 0 <= i <= len(list)
list_insert(lst, i, v) == SubSeq(lst, 1, i) \o << v >> \o SubSeq(lst, i + 1, Len(lst))

\* Variant of list_pop: pops the last element, as list.pop() without index.
list_pop_last(lst, i) == SubSeq(lst, 1, Len(lst) - 1)

\* list.pop(i) for 0 <= i < len(list): the list without element i
list_pop(lst, i) == SubSeq(lst, 1, i) \o SubSeq(lst, i + 2, Len(lst))

\* Variant of list_append: puts the new element first.
list_append_front(lst, v) == << v >> \o lst

\* list.append(v)
list_append(lst, v) == Append(lst, v)

\* Variant of list_setitem: off by one, writes the element before i.
list_setitem_before(lst, i, v) == IF i = 0 THEN lst ELSE [ lst EXCEPT ![i] = v ]

\* list[i] = v for 0 <= i < len(list)
list_setitem(lst, i, v) == [ lst EXCEPT ![i + 1] = v ]

\* The for loop of find_point_at_position from index i on: the first index
\* whose point is within click_radius = point_radius + 5 of (x, y).
RECURSIVE scan_points(_, _, _, _)
scan_points(pts, x, y, i) ==
    IF i >= Len(pts) THEN None
    ELSE LET px == pts[i + 1][1]
             py == pts[i + 1][2]
             click_radius == point_radius + 5
         IN  IF dist_squared(x, y, px, py) <= click_radius * click_radius
             THEN i
             ELSE scan_points(pts, x, y, i + 1)

\* Variant of find_point_at_position: returns the geometrically nearest point
\* within click_radius instead of the first one in index order.
find_point_nearest(pts, x, y) ==
    LET click_radius == point_radius + 5
        d(i) == dist_squared(x, y, pts[i + 1][1], pts[i + 1][2])
        near == { i \in 0 .. Len(pts) - 1 : d(i) <= click_radius * click_radius }
    IN  IF near = { } THEN None
        ELSE CHOOSE i \in near : \A j \in near : d(i) < d(j) \/ (d(i) = d(j) /\ i <= j)

\* Variant of find_point_at_position: click_radius = point_radius * 5.
RECURSIVE scan_points_wide(_, _, _, _)
scan_points_wide(pts, x, y, i) ==
    IF i >= Len(pts) THEN None
    ELSE LET click_radius == point_radius * 5
         IN  IF dist_squared(x, y, pts[i + 1][1], pts[i + 1][2]) <= click_radius * click_radius
             THEN i
             ELSE scan_points_wide(pts, x, y, i + 1)

find_point_wide(pts, x, y) == scan_points_wide(pts, x, y, 0)

find_point_at_position(pts, x, y) == scan_points(pts, x, y, 0)

\* point_to_line_distance: the float the function returns.
point_to_line_distance(px, py, x1, y1, x2, y2) ==
    IF x1 = x2 /\ y1 = y2
    THEN FloatSqrt(FloatFromInt(dist_squared(px, py, x1, y1)))
    ELSE LET line_vec_x == x2 - x1
             line_vec_y == y2 - y1
             point_vec_x == px - x1
             point_vec_y == py - y1
             line_length_squared == line_vec_x * line_vec_x + line_vec_y * line_vec_y
             dot_product_point_line == point_vec_x * line_vec_x + point_vec_y * line_vec_y
             projection == FloatClamp(IntTrueDiv(dot_product_point_line, line_length_squared))
             closest_x == FloatAdd(FloatFromInt(x1), FloatMul(projection, FloatFromInt(line_vec_x)))
             closest_y == FloatAdd(FloatFromInt(y1), FloatMul(projection, FloatFromInt(line_vec_y)))
             dx == FloatSub(FloatFromInt(px), closest_x)
             dy == FloatSub(FloatFromInt(py), closest_y)
         IN  FloatSqrt(FloatAdd(FloatSquare(dx), FloatSquare(dy)))

\* point_to_line_distance(x, y, x1, y1, x2, y2) <= line_click_tolerance
distance_within_tolerance(px, py, x1, y1, x2, y2) ==
    FloatLe(point_to_line_distance(px, py, x1, y1, x2, y2), FloatFromInt(line_click_tolerance))

\* The values of that comparison on the pointer positions of the
\* specifications, computed once.
tolerance_table ==
    [ p \in Positions |-> [ a \in Positions |-> [ b \in Positions |->
        distance_within_tolerance(p[1], p[2], a[1], a[2], b[1], b[2]) ] ] ]

edge_tolerance_table ==
    [ p \in EdgePositions |-> [ a \in EdgePositions |-> [ b \in EdgePositions |->
        distance_within_tolerance(p[1], p[2], a[1], a[2], b[1], b[2]) ] ] ]

\* The test of find_line_at_position for the point (px, py) and the segment
\* from (x1, y1) to (x2, y2).
within_line_tolerance(px, py, x1, y1, x2, y2) ==
    LET p == << px, py >>
        a == << x1, y1 >>
        b == << x2, y2 >>
    IN  IF p \in Positions /\ a \in Positions /\ b \in Positions
        THEN tolerance_table[p][a][b]
        ELSE IF p \in EdgePositions /\ a \in EdgePositions /\ b \in EdgePositions
        THEN edge_tolerance_table[p][a][b]
        ELSE distance_within_tolerance(px, py, x1, y1, x2, y2)

\* The for loop of find_line_at_position from segment i on.
RECURSIVE scan_lines(_, _, _, _)
scan_lines(pts, x, y, i) ==
    IF i >= Len(pts) - 1 THEN None
    ELSE IF within_line_tolerance(x, y, pts[i + 1][1], pts[i + 1][2],
                                        pts[i + 2][1], pts[i + 2][2])
         THEN i
         ELSE scan_lines(pts, x, y, i + 1)

find_line_at_position(pts, x, y) ==
    IF Len(pts) < 2 THEN None ELSE scan_lines(pts, x, y, 0)

\* Variant of coord_list: lists the points last to first.
RECURSIVE coord_list_reversed(_)
coord_list_reversed(pts) ==
    IF pts = << >> THEN ""
    ELSE LET p == pts[Len(pts)]
             item == "(" \o ToString(p[1]) \o ", " \o ToString(p[2]) \o ")"
         IN  IF Len(pts) = 1 THEN item
             ELSE item \o ", " \o coord_list_reversed(SubSeq(pts, 1, Len(pts) - 1))

\* f"({x}, {y})"
format_point(p) == "(" \o ToString(p[1]) \o ", " \o ToString(p[2]) \o ")"

\* sep.join(items)
RECURSIVE str_join(_, _)
str_join(sep, items) ==
    IF items = << >> THEN ""
    ELSE IF Len(items) = 1 THEN items[1]
    ELSE items[1] \o sep \o str_join(sep, Tail(items))

\* ", ".join([f"({x}, {y})" for x, y in self.points])
coord_list(pts) == str_join(", ", [ i \in 1 .. Len(pts) |-> format_point(pts[i]) ])

----------------------------------------------------------------------------
(* State machine *)

NoSeq == [ phase |-> "none", points0 |-> << >>, index |-> None, moved |-> FALSE ]

Init ==
    /\ points = << >>
    /\ dragging = FALSE
    /\ drag_point_index = None
    /\ mouse_x = 0
    /\ mouse_y = 0
    /\ status = [ msg |-> "Click: place/drag points or insert on lines, 'd': delete point near cursor",
                  args |-> << >> ]
    /\ event = [ handler |-> "__init__", arg |-> << >> ]
    /\ raised = FALSE
    /\ drag_seq = NoSeq
    /\ drag_target = None
    /\ clear_calls = 0
    /\ copied = << >>
    /\ warning = << >>
    /\ button_down = FALSE
    /\ dist_args = << >>
    /\ dist_result = << >>

\* Variant of on_canvas_click: tests the line segments before the points.
on_canvas_click_line_first(x, y) ==
    LET clicked_point_index == find_point_at_position(points, x, y)
        line_segment == find_line_at_position(points, x, y)
    IN  /\ event' = [ handler |-> "on_canvas_click", arg |-> << x, y >> ]
        /\ raised' = FALSE
        /\ clear_calls' = 0
        /\ UNCHANGED << mouse_x, mouse_y >>
        /\ IF line_segment # None
           THEN LET insert_index == line_segment + 1
                IN  /\ Len(points) < MaxLen
                    /\ points' = list_insert(points, insert_index, << x, y >>)
                    /\ status' = [ msg |-> "Point inserted at position",
                                   args |-> << insert_index + 1, x, y >> ]
                    /\ drag_target' = IF drag_target # None /\ insert_index <= drag_target
                                      THEN drag_target + 1
                                      ELSE drag_target
                    /\ drag_seq' = NoSeq
                    /\ UNCHANGED << dragging, drag_point_index >>
           ELSE IF clicked_point_index # None
           THEN /\ dragging' = TRUE
                /\ drag_target' = clicked_point_index
                /\ drag_point_index' = clicked_point_index
                /\ status' = [ msg |-> "Dragging point", args |-> << clicked_point_index + 1 >> ]
                /\ UNCHANGED points
                /\ drag_seq' = [ phase |-> "begun", points0 |-> points,
                                 index |-> clicked_point_index, moved |-> FALSE ]
           ELSE /\ Len(points) < MaxLen
                /\ points' = list_append(points, << x, y >>)
                /\ status' = [ msg |-> "Point placed at",
                               args |-> << Len(points) + 1, x, y >> ]
                /\ drag_seq' = NoSeq
                /\ UNCHANGED << dragging, drag_point_index, drag_target >>

\* <Button-1>
on_canvas_click(x, y) ==
    LET clicked_point_index == find_point_at_position(points, x, y)
        line_segment == find_line_at_position(points, x, y)
    IN  /\ event' = [ handler |-> "on_canvas_click", arg |-> << x, y >> ]
        /\ raised' = FALSE
        /\ clear_calls' = 0
        /\ UNCHANGED << mouse_x, mouse_y >>
        /\ IF clicked_point_index # None
           THEN /\ dragging' = TRUE
                /\ drag_target' = clicked_point_index
                /\ drag_point_index' = clicked_point_index
                /\ status' = [ msg |-> "Dragging point", args |-> << clicked_point_index + 1 >> ]
                /\ UNCHANGED points
                /\ drag_seq' = [ phase |-> "begun", points0 |-> points,
                                 index |-> clicked_point_index, moved |-> FALSE ]
           ELSE /\ Len(points) < MaxLen
                /\ UNCHANGED << dragging, drag_point_index >>
                /\ drag_seq' = NoSeq
                /\ IF line_segment # None
                   THEN LET insert_index == line_segment + 1
                        IN  /\ points' = list_insert(points, insert_index, << x, y >>)
                            /\ status' = [ msg |-> "Point inserted at position",
                                           args |-> << insert_index + 1, x, y >> ]
                            /\ drag_target' = IF drag_target # None /\ insert_index <= drag_target
                                              THEN drag_target + 1
                                              ELSE drag_target
                   ELSE /\ points' = list_append(points, << x, y >>)
                        /\ status' = [ msg |-> "Point placed at",
                                       args |-> << Len(points) + 1, x, y >> ]
                        /\ UNCHANGED drag_target

\* Variant of on_canvas_drag: also records the pointer position, as on_mouse_move does.
on_canvas_drag_tracking(x, y) ==
    /\ event' = [ handler |-> "on_canvas_drag", arg |-> << x, y >> ]
    /\ clear_calls' = 0
    /\ mouse_x' = x
    /\ mouse_y' = y
    /\ UNCHANGED << dragging, drag_point_index, drag_target >>
    /\ IF dragging /\ drag_point_index # None
       THEN IF drag_point_index < Len(points)
            THEN /\ points' = list_setitem(points, drag_point_index, << x, y >>)
                 /\ status' = [ msg |-> "Moving point",
                                args |-> << drag_point_index + 1, x, y >> ]
                 /\ raised' = FALSE
            ELSE \* self.points[self.drag_point_index] = ... raises IndexError
                 /\ raised' = TRUE
                 /\ UNCHANGED << points, status >>
       ELSE /\ raised' = FALSE
            /\ UNCHANGED << points, status >>
    /\ drag_seq' = IF drag_seq.phase = "begun"
                   THEN [ drag_seq EXCEPT !.moved = TRUE ]
                   ELSE NoSeq

\* <B1-Motion>
on_canvas_drag(x, y) ==
    /\ event' = [ handler |-> "on_canvas_drag", arg |-> << x, y >> ]
    /\ clear_calls' = 0
    /\ UNCHANGED << dragging, drag_point_index, mouse_x, mouse_y, drag_target >>
    /\ IF dragging /\ drag_point_index # None
       THEN IF drag_point_index < Len(points)
            THEN /\ points' = list_setitem(points, drag_point_index, << x, y >>)
                 /\ status' = [ msg |-> "Moving point",
                                args |-> << drag_point_index + 1, x, y >> ]
                 /\ raised' = FALSE
            ELSE \* self.points[self.drag_point_index] = ... raises IndexError
                 /\ raised' = TRUE
                 /\ UNCHANGED << points, status >>
       ELSE /\ raised' = FALSE
            /\ UNCHANGED << points, status >>
    /\ drag_seq' = IF drag_seq.phase = "begun"
                   THEN [ drag_seq EXCEPT !.moved = TRUE ]
                   ELSE NoSeq

\* Variant of on_canvas_release: resets the dragging flag and keeps the index.
on_canvas_release_keep_index(x, y) ==
    /\ event' = [ handler |-> "on_canvas_release", arg |-> << x, y >> ]
    /\ clear_calls' = 0
    /\ UNCHANGED << mouse_x, mouse_y >>
    /\ IF dragging
       THEN IF drag_point_index # None /\ drag_point_index < Len(points)
            THEN /\ points' = list_setitem(points, drag_point_index, << x, y >>)
                 /\ status' = [ msg |-> "Point moved to",
                                args |-> << drag_point_index + 1, x, y >> ]
                 /\ dragging' = FALSE
                 /\ UNCHANGED drag_point_index
                 /\ raised' = FALSE
                 /\ drag_target' = None
            ELSE \* self.points[self.drag_point_index] = ... raises; the reset is not reached
                 /\ raised' = TRUE
                 /\ UNCHANGED << points, status, dragging, drag_point_index, drag_target >>
       ELSE /\ raised' = FALSE
            /\ UNCHANGED << points, status, dragging, drag_point_index, drag_target >>
    /\ drag_seq' = IF drag_seq.phase = "begun"
                   THEN [ drag_seq EXCEPT !.phase = "ended" ]
                   ELSE NoSeq

\* <ButtonRelease-1>
on_canvas_release(x, y) ==
    /\ event' = [ handler |-> "on_canvas_release", arg |-> << x, y >> ]
    /\ clear_calls' = 0
    /\ UNCHANGED << mouse_x, mouse_y >>
    /\ IF dragging
       THEN IF drag_point_index # None /\ drag_point_index < Len(points)
            THEN /\ points' = list_setitem(points, drag_point_index, << x, y >>)
                 /\ status' = [ msg |-> "Point moved to",
                                args |-> << drag_point_index + 1, x, y >> ]
                 /\ dragging' = FALSE
                 /\ drag_point_index' = None
                 /\ raised' = FALSE
                 /\ drag_target' = None
            ELSE \* self.points[self.drag_point_index] = ... raises; the reset is not reached
                 /\ raised' = TRUE
                 /\ UNCHANGED << points, status, dragging, drag_point_index, drag_target >>
       ELSE /\ raised' = FALSE
            /\ UNCHANGED << points, status, dragging, drag_point_index, drag_target >>
    /\ drag_seq' = IF drag_seq.phase = "begun"
                   THEN [ drag_seq EXCEPT !.phase = "ended" ]
                   ELSE NoSeq

\* <Motion>
on_mouse_move(x, y) ==
    /\ event' = [ handler |-> "on_mouse_move", arg |-> << x, y >> ]
    /\ raised' = FALSE
    /\ mouse_x' = x
    /\ mouse_y' = y
    /\ drag_seq' = NoSeq
    /\ clear_calls' = 0
    /\ UNCHANGED << points, dragging, drag_point_index, status, drag_target >>

\* The body of delete_point_at_mouse: the assignments to the editor's fields.
delete_point_at_mouse ==
    LET point_index == find_point_at_position(points, mouse_x, mouse_y)
    IN  /\ UNCHANGED << dragging, drag_point_index, mouse_x, mouse_y >>
        /\ IF point_index # None
           THEN LET deleted_point == points[point_index + 1]
                IN  /\ points' = list_pop(points, point_index)
                    /\ status' = [ msg |-> "Deleted point at",
                                   args |-> << deleted_point[1], deleted_point[2] >> ]
           ELSE /\ status' = [ msg |-> "No point near mouse cursor to delete", args |-> << >> ]
                /\ UNCHANGED points

\* <Key>
on_key_press(keysym) ==
    /\ event' = [ handler |-> "on_key_press", arg |-> << keysym >> ]
    /\ raised' = FALSE
    /\ drag_seq' = NoSeq
    /\ clear_calls' = 0
    /\ IF lower(keysym) = "d"
       THEN /\ delete_point_at_mouse
            /\ LET k == find_point_at_position(points, mouse_x, mouse_y)
               IN  drag_target' = IF k = None \/ drag_target = None THEN drag_target
                                  ELSE IF k < drag_target THEN drag_target - 1
                                  ELSE IF k = drag_target THEN None
                                  ELSE drag_target
       ELSE UNCHANGED << model_vars, drag_target >>

\* Variant of clear_points: removes the last point only.
clear_points_pop_last ==
    /\ event' = [ handler |-> "clear_points", arg |-> << >> ]
    /\ raised' = FALSE
    /\ drag_seq' = NoSeq
    /\ drag_target' = None
    /\ clear_calls' = IF clear_calls < 2 THEN clear_calls + 1 ELSE clear_calls
    /\ points' = IF points = << >> THEN << >> ELSE SubSeq(points, 1, Len(points) - 1)
    /\ status' = [ msg |-> "All points cleared", args |-> << >> ]
    /\ UNCHANGED << dragging, drag_point_index, mouse_x, mouse_y >>

\* "Clear All Points" button
clear_points ==
    /\ event' = [ handler |-> "clear_points", arg |-> << >> ]
    /\ raised' = FALSE
    /\ drag_seq' = NoSeq
    /\ drag_target' = None
    /\ clear_calls' = IF clear_calls < 2 THEN clear_calls + 1 ELSE clear_calls
    /\ points' = << >>
    /\ status' = [ msg |-> "All points cleared", args |-> << >> ]
    /\ UNCHANGED << dragging, drag_point_index, mouse_x, mouse_y >>

\* "Copy Coordinates" button
copy_coordinates ==
    /\ event' = [ handler |-> "copy_coordinates", arg |-> << >> ]
    /\ raised' = FALSE
    /\ drag_seq' = NoSeq
    /\ clear_calls' = 0
    /\ UNCHANGED << points, dragging, drag_point_index, mouse_x, mouse_y, drag_target >>
    /\ IF points = << >>
       THEN \* messagebox.showwarning("No Points", ...); return
            /\ warning' = << "No Points" >>
            /\ copied' = << >>
            /\ UNCHANGED status
       ELSE /\ copied' = << coord_list(points) >>
            /\ warning' = << >>
            /\ status' = [ msg |-> "Coordinates copied to clipboard!", args |-> << >> ]

\* A call point_to_line_distance(px, py, x1, y1, x2, y2) returns.
call_point_to_line_distance ==
    /\ dist_args # << >>
    /\ dist_result = << >>
    /\ dist_result' = << point_to_line_distance(dist_args[1], dist_args[2], dist_args[3],
                                                dist_args[4], dist_args[5], dist_args[6]) >>
    /\ UNCHANGED << model_vars, event, raised, drag_seq, drag_target, clear_calls,
                    export_vars, button_down, dist_args >>

\* The handlers other than copy_coordinates call neither pyperclip nor messagebox.
no_export == copied' = << >> /\ warning' = << >>

Click ==
    \E p \in Positions :
        on_canvas_click(p[1], p[2]) /\ no_export /\ UNCHANGED << button_down, dist_vars >>
Drag ==
    \E p \in Positions :
        on_canvas_drag(p[1], p[2]) /\ no_export /\ UNCHANGED << button_down, dist_vars >>
Release ==
    \E p \in Positions :
        on_canvas_release(p[1], p[2]) /\ no_export /\ UNCHANGED << button_down, dist_vars >>
MouseMove ==
    \E p \in Positions :
        on_mouse_move(p[1], p[2]) /\ no_export /\ UNCHANGED << button_down, dist_vars >>
KeyPress ==
    \E k \in Keysyms :
        on_key_press(k) /\ no_export /\ UNCHANGED << button_down, dist_vars >>
Clear == clear_points /\ no_export /\ UNCHANGED << button_down, dist_vars >>
Copy == copy_coordinates /\ UNCHANGED << button_down, dist_vars >>

\* The event loop: Tk dispatches the events in any order.
Next ==
    \/ Click
    \/ Drag
    \/ Release
    \/ MouseMove
    \/ KeyPress
    \/ Clear
    \/ Copy

Spec == Init /\ [][Next]_vars

\* The editor driven by one pointer with one button.  Tk delivers <Button-1>
\* when the button goes down, <B1-Motion> while it is held, <ButtonRelease-1>
\* when it goes up and <Motion> while it is up; keys and the two buttons of
\* the window are independent of the pointer's button.
PointerPress ==
    /\ ~button_down
    /\ button_down' = TRUE
    /\ \E p \in Positions : on_canvas_click(p[1], p[2])
    /\ no_export
    /\ UNCHANGED dist_vars

PointerDrag == button_down /\ Drag

PointerRelease ==
    /\ button_down
    /\ button_down' = FALSE
    /\ \E p \in Positions : on_canvas_release(p[1], p[2])
    /\ no_export
    /\ UNCHANGED dist_vars

PointerMove == ~button_down /\ MouseMove

NextPointer ==
    \/ PointerPress
    \/ PointerDrag
    \/ PointerRelease
    \/ PointerMove
    \/ KeyPress
    \/ Clear
    \/ Copy

SpecPointer == Init /\ [][NextPointer]_vars

\* The editor at the boundary of the line tolerance: presses and releases at
\* the positions of EdgePositions, and the Clear button.
EdgeClick ==
    \E p \in EdgePositions :
        on_canvas_click(p[1], p[2]) /\ no_export /\ UNCHANGED << button_down, dist_vars >>
EdgeRelease ==
    \E p \in EdgePositions :
        on_canvas_release(p[1], p[2]) /\ no_export /\ UNCHANGED << button_down, dist_vars >>

NextEdge ==
    \/ EdgeClick
    \/ EdgeRelease
    \/ Clear

SpecEdge == Init /\ [][NextEdge]_vars

\* The export: the editor holds any trace of points of ExportPoints, Idle or
\* dragging one of its points, and the two buttons are pressed.
InitExport ==
    /\ points \in UNION { [ 1 .. n -> ExportPoints ] : n \in 0 .. MaxExportLen }
    /\ drag_point_index \in { None } \cup ( 0 .. Len(points) - 1 )
    /\ dragging = ( drag_point_index # None )
    /\ drag_target = drag_point_index
    /\ mouse_x = 0
    /\ mouse_y = 0
    /\ status = [ msg |-> "Click: place/drag points or insert on lines, 'd': delete point near cursor",
                  args |-> << >> ]
    /\ event = [ handler |-> "__init__", arg |-> << >> ]
    /\ raised = FALSE
    /\ drag_seq = NoSeq
    /\ clear_calls = 0
    /\ copied = << >>
    /\ warning = << >>
    /\ button_down = FALSE
    /\ dist_args = << >>
    /\ dist_result = << >>

NextExport ==
    \/ Copy
    \/ Clear

SpecExport == InitExport /\ [][NextExport]_vars

\* The distance function on its own: one call on integer arguments of the grid.
InitDist ==
    /\ points = << >>
    /\ dragging = FALSE
    /\ drag_point_index = None
    /\ mouse_x = 0
    /\ mouse_y = 0
    /\ status = [ msg |-> "Click: place/drag points or insert on lines, 'd': delete point near cursor",
                  args |-> << >> ]
    /\ event = [ handler |-> "__init__", arg |-> << >> ]
    /\ raised = FALSE
    /\ drag_seq = NoSeq
    /\ drag_target = None
    /\ clear_calls = 0
    /\ copied = << >>
    /\ warning = << >>
    /\ button_down = FALSE
    /\ dist_args \in [ 1 .. 6 -> GridCoords ]
    /\ dist_result = << >>

NextDist == call_point_to_line_distance

SpecDist == InitDist /\ [][NextDist]_vars

----------------------------------------------------------------------------
(* Properties *)

IsEvent(h) == event.handler = h

Idle == ~dragging /\ drag_point_index = None

ValidDragIndex == drag_point_index # None /\ 0 <= drag_point_index
                    /\ drag_point_index < Len(points)

\* C1: in every reachable state a drag in progress holds a valid index into
\* the trace, and no drag-move or release handler makes an out-of-range access.
C1_DragIndexValid == (dragging => ValidDragIndex) /\ ~raised

\* C2: a delete that removes the point being dragged leaves the model Idle.
C2_DeleteDraggedClearsDrag ==
    [][ ( /\ event'.handler = "on_key_press"
          /\ lower(event'.arg[1]) = "d"
          /\ dragging
          /\ find_point_at_position(points, mouse_x, mouse_y) # None
          /\ find_point_at_position(points, mouse_x, mouse_y) = drag_point_index )
        => ( ~dragging' /\ drag_point_index' = None ) ]_vars

\* C3: after clear, in any state, the trace is empty and the model is Idle.
C3_ClearEmptiesAndIdles == IsEvent("clear_points") => ( points = << >> /\ Idle )

\* C4: a release that arrives while a drag is in progress writes the release
\* position into the dragged point and leaves the model Idle.
C4_ReleaseEndsDrag ==
    [][ ( event'.handler = "on_canvas_release" /\ dragging )
        => ( /\ ~raised'
             /\ ~dragging'
             /\ drag_point_index' = None
             /\ drag_point_index < Len(points')
             /\ points'[drag_point_index + 1] = event'.arg ) ]_vars

\* C5: no click inserts or appends a point while the dragging flag is set.
C5_GrowOnlyWhenIdle ==
    ~ ( /\ IsEvent("on_canvas_click")
        /\ status.msg \in { "Point inserted at position", "Point placed at" }
        /\ dragging )

\* The trace [(0,0), (10,0)] and the result of inserting (5,1) at index 1.
C6_Before == << << 0, 0 >>, << 10, 0 >> >>
C6_After == << << 0, 0 >>, << 5, 1 >>, << 10, 0 >> >>

\* C6 as stated: from the Idle trace [(0,0), (10,0)], a click at (5,1) inserts
\* the point at index 1 and yields [(0,0), (5,1), (10,0)].
C6_InsertCorrectness ==
    [][ ( /\ points = C6_Before
          /\ Idle
          /\ event'.handler = "on_canvas_click"
          /\ event'.arg = << 5, 1 >> )
        => points' = C6_After ]_vars

\* A trace whose segment passes within 5 of (10,0) while both endpoints are
\* farther than 8 from it, and the result of inserting (10,0) at index 1.
C6_LongBefore == << << 0, 0 >>, << 20, 2 >> >>
C6_LongAfter == << << 0, 0 >>, << 10, 0 >>, << 20, 2 >> >>

\* C6 amended: from the Idle trace [(0,0), (10,0)], a click at (5,1) is within
\* the click radius of (0,0): it starts a drag on index 0 and leaves the trace
\* unchanged.  From the Idle trace [(0,0), (20,2)], a click at (10,0) (within 5
\* of the segment, farther than 8 from both endpoints) inserts the point at
\* index 1 and yields [(0,0), (10,0), (20,2)].
C6_InsertCorrectnessAmended ==
    [][ /\ ( /\ points = C6_Before
             /\ Idle
             /\ event'.handler = "on_canvas_click"
             /\ event'.arg = << 5, 1 >> )
           => ( /\ points' = C6_Before
                /\ dragging' /\ drag_point_index' = 0 )
        /\ ( /\ points = C6_LongBefore
             /\ Idle
             /\ event'.handler = "on_canvas_click"
             /\ event'.arg = << 10, 0 >> )
           => ( /\ points' = C6_LongAfter
                /\ status' = [ msg |-> "Point inserted at position", args |-> << 2, 10, 0 >> ]
                /\ Idle' ) ]_vars

\* The click at (10,0) has just inserted index 1 into [(0,0), (20,2)].
C6_Witness ==
    /\ IsEvent("on_canvas_click") /\ event.arg = << 10, 0 >>
    /\ status = [ msg |-> "Point inserted at position", args |-> << 2, 10, 0 >> ]
    /\ points = C6_LongAfter
    /\ Idle

\* Indices of the points of pts within distance 8 of pos.
PointsWithinRadius(pts, pos) ==
    { i \in 0 .. Len(pts) - 1 : dist_squared(pos[1], pos[2], pts[i + 1][1], pts[i + 1][2]) <= 8 * 8 }

\* The square of the distance from (px, py) to the segment from (x1, y1) to
\* (x2, y2), as the exact fraction << num, den >>.
SegmentDistanceSquared(px, py, x1, y1, x2, y2) ==
    LET len2 == dist_squared(x1, y1, x2, y2)
        dot == (px - x1) * (x2 - x1) + (py - y1) * (y2 - y1)
        cross == (px - x1) * (y2 - y1) - (py - y1) * (x2 - x1)
    IN  IF len2 = 0 \/ dot <= 0 THEN << dist_squared(px, py, x1, y1), 1 >>
        ELSE IF dot >= len2 THEN << dist_squared(px, py, x2, y2), 1 >>
        ELSE << cross * cross, len2 >>

\* Indices of the segments of pts at distance 5 or less from pos.
SegmentsWithinTolerance(pts, pos) ==
    { i \in 0 .. Len(pts) - 2 :
        LET d == SegmentDistanceSquared(pos[1], pos[2], pts[i + 1][1], pts[i + 1][2],
                                                        pts[i + 2][1], pts[i + 2][2])
        IN  d[1] <= 5 * 5 * d[2] }

Lowest(S) == CHOOSE i \in S : \A j \in S : i <= j

C7_HitTestLowest ==
    \A pos \in Positions :
        find_point_at_position(points, pos[1], pos[2]) =
            IF PointsWithinRadius(points, pos) = { } THEN None
            ELSE Lowest(PointsWithinRadius(points, pos))

C7_ClickDragsLowest ==
    ( /\ event'.handler = "on_canvas_click"
      /\ Cardinality(PointsWithinRadius(points, event'.arg)) >= 2 )
    => ( /\ dragging'
         /\ drag_point_index' = Lowest(PointsWithinRadius(points, event'.arg))
         /\ points' = points )

\* C7: the hit test returns the lowest index within distance 8 of the position
\* (or none), and a click with two or more points within that radius starts a
\* drag on the lowest-index one, whichever is geometrically closer.
C7_LowestIndexWins == [] C7_HitTestLowest /\ [][ C7_ClickDragsLowest ]_vars

\* A click has just started a drag on the lowest of several points within the
\* radius although a higher-index one is strictly closer to the click.
C7_Witness ==
    /\ IsEvent("on_canvas_click")
    /\ status.msg = "Dragging point"
    /\ LET hits == PointsWithinRadius(points, event.arg)
           d(i) == dist_squared(event.arg[1], event.arg[2], points[i + 1][1], points[i + 1][2])
       IN  /\ Cardinality(hits) >= 2
           /\ dragging /\ drag_point_index = Lowest(hits)
           /\ \E j \in hits : j > drag_point_index /\ d(j) < d(drag_point_index)

\* C8: a click within the radius of no point but within the tolerance of some
\* segment inserts exactly the click position at index s + 1, s the lowest
\* qualifying segment; earlier points stay, later points move up by one.
C8_InsertAfterLowestSegment ==
    [][ ( /\ event'.handler = "on_canvas_click"
          /\ PointsWithinRadius(points, event'.arg) = { }
          /\ SegmentsWithinTolerance(points, event'.arg) # { } )
        => LET s == Lowest(SegmentsWithinTolerance(points, event'.arg))
           IN  /\ Len(points') = Len(points) + 1
               /\ points'[s + 2] = event'.arg
               /\ \A j \in 0 .. Len(points) - 1 :
                      IF j <= s THEN points'[j + 1] = points[j + 1]
                                ELSE points'[j + 2] = points[j + 1] ]_vars

\* C9: a click within the radius of no point and the tolerance of no segment
\* appends exactly the click position and leaves the existing points in place.
C9_AppendFallback ==
    [][ ( /\ event'.handler = "on_canvas_click"
          /\ PointsWithinRadius(points, event'.arg) = { }
          /\ SegmentsWithinTolerance(points, event'.arg) = { } )
        => ( /\ Len(points') = Len(points) + 1
             /\ points'[Len(points) + 1] = event'.arg
             /\ \A j \in 1 .. Len(points) : points'[j] = points[j] ) ]_vars

\* A click has just appended a point to a trace that already had a segment.
C9_Witness ==
    /\ IsEvent("on_canvas_click")
    /\ status.msg = "Point placed at"
    /\ Len(points) >= 3
    /\ status.args = << Len(points), event.arg[1], event.arg[2] >>
    /\ points[Len(points)] = event.arg
    /\ LET before == SubSeq(points, 1, Len(points) - 1)
       IN  /\ PointsWithinRadius(before, event.arg) = { }
           /\ SegmentsWithinTolerance(before, event.arg) = { }

\* C10: when a click that hit a point, drag-moves only, and a release have
\* just completed, the trace has the length it had at the click, every point
\* but the dragged one is unchanged and the dragged one is the release position.
C10_DragPreservesTrace ==
    drag_seq.phase = "ended"
    => ( /\ IsEvent("on_canvas_release")
         /\ ~raised
         /\ Len(points) = Len(drag_seq.points0)
         /\ \A j \in 0 .. Len(points) - 1 :
                IF j = drag_seq.index THEN points[j + 1] = event.arg
                                      ELSE points[j + 1] = drag_seq.points0[j + 1] )

\* A drag sequence with at least one drag-move has just ended and moved a
\* point of a trace with other points.
C10_Witness ==
    /\ drag_seq.phase = "ended"
    /\ drag_seq.moved
    /\ Len(points) >= 2
    /\ points # drag_seq.points0
    /\ points[drag_seq.index + 1] = event.arg

MousePos == << mouse_x, mouse_y >>

DeleteKey(e) == e.handler = "on_key_press" /\ lower(e.arg[1]) = "d"

\* C11: a delete that finds a point within the click radius of the cursor
\* removes exactly the lowest-index such point: the trace is one shorter, the
\* points before it are unchanged and every later point moves down by one.
C11_DeleteRemovesLowestHit ==
    [][ ( /\ DeleteKey(event')
          /\ PointsWithinRadius(points, MousePos) # { } )
        => LET k == Lowest(PointsWithinRadius(points, MousePos))
           IN  /\ Len(points') = Len(points) - 1
               /\ \A j \in 0 .. Len(points) - 1 :
                      /\ j < k => points'[j + 1] = points[j + 1]
                      /\ j > k => points'[j] = points[j + 1]
               /\ status' = [ msg |-> "Deleted point at",
                              args |-> << points[k + 1][1], points[k + 1][2] >> ] ]_vars

\* A delete has just removed one of several points within the radius of the
\* cursor: another one, which was at a higher index, is still in the trace.
C11_Witness ==
    /\ DeleteKey(event)
    /\ status.msg = "Deleted point at"
    /\ dist_squared(mouse_x, mouse_y, status.args[1], status.args[2]) <= 8 * 8
    /\ PointsWithinRadius(points, MousePos) # { }
    /\ Len(points) >= 2

\* C12: a delete that finds no point within the click radius of the cursor
\* reports not-found, raises nothing and leaves the trace and the drag state.
C12_DeleteNotFound ==
    [][ ( /\ DeleteKey(event')
          /\ PointsWithinRadius(points, MousePos) = { } )
        => ( /\ ~raised'
             /\ status' = [ msg |-> "No point near mouse cursor to delete", args |-> << >> ]
             /\ UNCHANGED << points, dragging, drag_point_index >> ) ]_vars

\* A delete has just reported not-found on a trace that has points, all of
\* them farther than the radius from the cursor.
C12_Witness ==
    /\ DeleteKey(event)
    /\ status.msg = "No point near mouse cursor to delete"
    /\ ~raised
    /\ points # << >>
    /\ PointsWithinRadius(points, MousePos) = { }

\* C13: a drag-move or a release received while Idle raises nothing and leaves
\* the trace, the drag state and the cursor position unchanged.
C13_IdleDragReleaseNoOp ==
    [][ ( /\ event'.handler \in { "on_canvas_drag", "on_canvas_release" }
          /\ Idle )
        => ( /\ ~raised'
             /\ UNCHANGED << points, dragging, drag_point_index, mouse_x, mouse_y >> ) ]_vars

\* A release has just been handled in the Idle state: the model is Idle and the
\* status line is not the one a release that ends a drag leaves.
C13_Witness ==
    /\ IsEvent("on_canvas_release")
    /\ Idle
    /\ ~raised
    /\ status.msg # "Point moved to"
    /\ points # << >>

\* TRUE iff the float f is the double nearest to the square root of the
\* integer n >= 0: f = m * 2^e with (2m - 1)^2 <= n * 4^(1 - e) <= (2m + 1)^2
IsNearestRoot(f, n) ==
    IF n = 0 THEN f.m = << >>
    ELSE /\ f.m # << >>
         /\ ~f.neg
         /\ BigCmp(BigMul(BigSub(BigShl(f.m, 1), << 1 >>), BigSub(BigShl(f.m, 1), << 1 >>)),
                   BigShl(BigFromInt(n), 2 - 2 * f.e)) <= 0
         /\ BigCmp(BigShl(BigFromInt(n), 2 - 2 * f.e),
                   BigMul(BigAdd(BigShl(f.m, 1), << 1 >>), BigAdd(BigShl(f.m, 1), << 1 >>))) <= 0

\* C14: point_to_line_distance(p, a, b) is distance(p, a) when a = b, 0 when p
\* lies on the segment from a to b, and the distance from p to the nearer
\* endpoint when the projection of p falls outside the segment.
C14_SegmentDistanceBoundary ==
    dist_result # << >> =>
        LET px == dist_args[1]
            py == dist_args[2]
            x1 == dist_args[3]
            y1 == dist_args[4]
            x2 == dist_args[5]
            y2 == dist_args[6]
            da == dist_squared(px, py, x1, y1)
            db == dist_squared(px, py, x2, y2)
            cross == (px - x1) * (y2 - y1) - (py - y1) * (x2 - x1)
            dot == (px - x1) * (x2 - x1) + (py - y1) * (y2 - y1)
            len2 == dist_squared(x1, y1, x2, y2)
            between(v, a, b) == (a <= v /\ v <= b) \/ (b <= v /\ v <= a)
            on_segment == cross = 0 /\ between(px, x1, x2) /\ between(py, y1, y2)
        IN  /\ len2 = 0 => IsNearestRoot(dist_result[1], da)
            /\ on_segment => dist_result[1] = FloatZero
            /\ (len2 > 0 /\ (dot < 0 \/ dot > len2))
                  => IsNearestRoot(dist_result[1], IF da <= db THEN da ELSE db)

\* The text "(x1, y1), (x2, y2), ..." of a trace, built from the left.
RECURSIVE ExportText(_)
ExportText(pts) ==
    IF pts = << >> THEN ""
    ELSE LET p == pts[Len(pts)]
             item == "(" \o ToString(p[1]) \o ", " \o ToString(p[2]) \o ")"
         IN  IF Len(pts) = 1 THEN item
             ELSE ExportText(SubSeq(pts, 1, Len(pts) - 1)) \o ", " \o item

\* C15 as stated: the export yields the points in trace order as "(x, y)"
\* items joined by ", ", the empty string on an empty trace, and changes
\* neither the trace nor the drag state.
C15_ExportText ==
    [][ event'.handler = "copy_coordinates"
        => ( /\ copied' = << ExportText(points) >>
             /\ UNCHANGED << points, dragging, drag_point_index >> ) ]_vars

\* C15 amended: on a trace with points the export copies the points in trace
\* order as "(x, y)" items joined by ", " ([(1,2), (3,4)] gives
\* "(1, 2), (3, 4)"); on an empty trace it shows the "No Points" warning and
\* copies nothing.  Neither changes the trace or the drag state.
C15_ExportTextAmended ==
    [][ event'.handler = "copy_coordinates"
        => ( /\ UNCHANGED << points, dragging, drag_point_index >>
             /\ IF points # << >>
                THEN /\ copied' = << ExportText(points) >>
                     /\ points = << << 1, 2 >>, << 3, 4 >> >> => copied' = << "(1, 2), (3, 4)" >>
                     /\ points = << << -5, 10 >> >> => copied' = << "(-5, 10)" >>
                     /\ warning' = << >>
                ELSE /\ copied' = << >>
                     /\ warning' = << "No Points" >>
                     /\ status' = status ) ]_vars

\* The trace [(1,2), (3,4)] has just been copied while one of its points was
\* being dragged.
C15_Witness ==
    /\ IsEvent("copy_coordinates")
    /\ points = << << 1, 2 >>, << 3, 4 >> >>
    /\ copied = << "(1, 2), (3, 4)" >>
    /\ status.msg = "Coordinates copied to clipboard!"
    /\ dragging

\* C16: clear called twice in a row leaves the trace empty after the first
\* call and the same state after the second, and neither call raises.
C16_ClearIdempotent ==
    /\ [] ( IsEvent("clear_points") => ( points = << >> /\ ~raised ) )
    /\ [][ ( event.handler = "clear_points" /\ event'.handler = "clear_points" )
           => UNCHANGED model_vars ]_vars

\* clear has just been called for the second time in a row.
C16_Witness ==
    /\ IsEvent("clear_points")
    /\ clear_calls = 2
    /\ points = << >>
    /\ ~raised

\* C17: a click within the click radius of a point starts a drag on such a
\* point and leaves the trace unchanged, also when the click is within the
\* line tolerance of a segment.
C17_PointHitHasPriority ==
    [][ ( /\ event'.handler = "on_canvas_click"
          /\ PointsWithinRadius(points, event'.arg) # { } )
        => ( /\ dragging'
             /\ drag_point_index' \in PointsWithinRadius(points, event'.arg)
             /\ status'.msg = "Dragging point"
             /\ points' = points ) ]_vars

\* A click within the tolerance of a segment has just started a drag.
C17_Witness ==
    /\ IsEvent("on_canvas_click")
    /\ status.msg = "Dragging point"
    /\ dragging
    /\ drag_point_index \in PointsWithinRadius(points, event.arg)
    /\ SegmentsWithinTolerance(points, event.arg) # { }

\* C18: after any pointer event (press, move with or without the button held,
\* release) at (x, y) the tracked cursor position is (x, y), and recording it
\* changes neither the trace nor the drag state.
C18_CursorTracksPointer ==
    [][ /\ event'.handler \in { "on_canvas_click", "on_canvas_drag",
                                "on_canvas_release", "on_mouse_move" }
           => << mouse_x', mouse_y' >> = event'.arg
        /\ event'.handler = "on_mouse_move"
           => UNCHANGED << points, dragging, drag_point_index >> ]_vars

\* C19: the dragging flag is set exactly when the drag index is set, and the
\* initial state is Idle.
C19_DragFieldsConsistent ==
    /\ dragging <=> drag_point_index # None
    /\ IsEvent("__init__") => Idle

\* A release has just ended a drag: both fields are reset.
C19_Witness ==
    /\ IsEvent("on_canvas_release")
    /\ drag_seq.phase = "ended"
    /\ status.msg = "Point moved to"
    /\ Idle

\* C20: every drag-move and release that writes a point writes the point the
\* drag started on, whatever delete-key and mouse-move events came between.
C20_DragMovesStartPoint ==
    [][ ( /\ event'.handler \in { "on_canvas_drag", "on_canvas_release" }
          /\ dragging
          /\ ~raised' )
        => drag_point_index = drag_target ]_vars

====
